---- MODULE Spec2Model ----
(***************************************************************************)
(* A model of the SAT solver driver of SudokuStudio: cantAttempt and solve *)
(* with the element encoders (ELEMENT_HANDLERS), the CryptoMiniSat handle  *)
(* the driver owns, the host that may set the cancellation token at the    *)
(* driver's suspension points and inside its callback, and the callback    *)
(* log the caller observes.                                                *)
(***************************************************************************)
EXTENDS Integers, Sequences, FiniteSets, TLC

VARIABLES
    board,          \* the board snapshot: [grid |-> [width, height], elements |-> <<...>>]
    maxSolutions,   \* solve's maxSolutions argument
    cancelled,      \* cancellationToken.cancelled
    cancelAt,       \* number of callback invocations begun when the token was set (-1: not set)
    cancelPc,       \* where the driver stood when the token was set
    pc,             \* the driver's position in solve
    elemIdx,        \* index of the element the encoding loop is at (1-based)
    clauses,        \* context.clauses
    numVars,        \* let numVars
    handle,         \* satSolverPtr: "none", "live" or "freed"
    newCount,       \* calls of cmsat_new
    freeCount,      \* calls of cmsat_free
    satVars,        \* variables declared to the solver by cmsat_new_vars
    satClauses,     \* clauses the solver holds, in CMS literals
    clauseIdx,      \* position of the clause-ingestion loop in context.clauses
    loopI,          \* the enumeration loop's counter _i
    status,         \* the lbool of the last cmsat_solve
    satModel,       \* the solver's model: the set of variable indices (0-based) that are TRUE
    solution,       \* the IdxMap being decoded / passed to the callback
    excludeSolutionClause,
    cbLog,          \* the callback invocations, in order
    result,         \* what the promise of solve settled to: "pending", "true", "false", "threw"
    solveCalls,     \* calls of cmsat_solve
    undefCount,     \* UNDEF verdicts so far
    run,            \* 1 for the first solve of the board, 2 for the second
    prevSolutions,  \* the set of solutions the first run reported
    warnLog,        \* the element types console.warn reported as ignored, in order
    yieldCount,     \* completed awaits of asyncYield()
    budgetSet,      \* cmsat_set_max_time was called since the last cmsat_solve
    wGrid,          \* the grid of the board the editor shows
    wElements,      \* the elements of that board that carry warning rules, in Object.values order
    wDigits,        \* getDigits(newElements): cellIdx -> digit, for the filled cells
    warningState,   \* warningState 'cells': cellIdx -> boolean, for the cells some rule wrote
    wPrevFlagged,   \* the cells the evaluation before the last one flagged
    hType,          \* the box-shaped encoder that runs on a 9x9 board: "box" or "disjointGroups"
    hValue,         \* element.value of its element
    hOuter,         \* position of its outer loop in product(size, size) (1-based)
    hBox,           \* the array 'box' of the last encodeBoth call
    hCalls,         \* calls of encodeBoth so far
    hDone,          \* the encoder has returned
    eElements,      \* boardState 'elements': id -> element, for the elements that exist
    eList,          \* the array 'list' of the elementHandlers store
    eHistory,       \* the diffs pushHistory received, in order
    eTool,          \* userToolState: the id of an element, 0 for none
    ePrevTool,      \* userPrevToolState
    eNextUid,       \* the number of ids boardRepr.makeUid has handed out, plus one
    eLast,          \* the last call of addElement: its type, whether it threw, the id it returned
    tThermos,       \* the thermo element's value: thermoId -> ArrayObj of cell indices
    tRef,           \* let thermoRef: the id it points at, 0 for null
    tLen,           \* let len
    tDragging,      \* a drag gesture is under way
    tNextId,        \* the number of thermo ids dragStart has made, plus one
    tDigits,        \* the digits getConflicts was last called with
    tConflicts      \* what that call returned

vars == << board, maxSolutions, cancelled, cancelAt, cancelPc, pc, elemIdx, clauses,
           numVars, handle, newCount, freeCount, satVars, satClauses, clauseIdx, loopI,
           status, satModel, solution, excludeSolutionClause, cbLog, result, solveCalls,
           undefCount, run, prevSolutions, warnLog, yieldCount, budgetSet,
           wGrid, wElements, wDigits, warningState, wPrevFlagged,
           hType, hValue, hOuter, hBox, hCalls, hDone,
           eElements, eList, eHistory, eTool, ePrevTool, eNextUid, eLast,
           tThermos, tRef, tLen, tDragging, tNextId, tDigits, tConflicts >>

\* the variables of the warning evaluation, and the call history of solve
warnVars == << wGrid, wElements, wDigits, warningState, wPrevFlagged >>
histVars == << warnLog, yieldCount, budgetSet >>

\* the variables of a box-shaped encoder run on its own
handlerVars == << hType, hValue, hOuter, hBox, hCalls, hDone >>

\* the variables of the element list of the editor, and of the thermo tool
editVars == << eElements, eList, eHistory, eTool, ePrevTool, eNextUid, eLast >>
thermoVars == << tThermos, tRef, tLen, tDragging, tNextId, tDigits, tConflicts >>

----------------------------------------------------------------------------
(* Bounds of the model. *)

\* largest maxSolutions a caller passes
MaxSol == 3
\* most UNDEF verdicts the solver gives in one run
MaxUndef == 1
\* most elements on a board
MaxElements == 2

\* grid sizes of the boards
Sizes == {1, 2}

----------------------------------------------------------------------------
(* Arithmetic helpers. *)

Abs(n) == IF n < 0 THEN -n ELSE n

RECURSIVE Pow2(_)
Pow2(n) == IF n = 0 THEN 1 ELSE 2 * Pow2(n - 1)

Pow3(n) == n * n * n

RECURSIVE SortedSeq(_)
SortedSeq(S) ==
    IF S = {} THEN << >>
    ELSE LET m == CHOOSE a \in S : \A b \in S : a <= b
         IN  << m >> \o SortedSeq(S \ {m})

Range(s) == { s[k] : k \in 1..Len(s) }

----------------------------------------------------------------------------
(* The driver's pure helpers. *)

\* product(size, size, size): the triples [y, x, v] in generation order,
\* the t-th triple (0-based) being the base-size digits of t.
Product3(size) ==
    [ t \in 1..Pow3(size) |->
        << (t - 1) \div (size * size), ((t - 1) \div size) % size, (t - 1) % size >> ]

\* product(size, size): the pairs [a, b] in generation order.
Product2(size) ==
    [ t \in 1..(size * size) |-> << (t - 1) \div size, (t - 1) % size >> ]

\* mutant of literalToCms: the variable is not shifted past the sign bit
literalToCmsNoShift(literal) == (Abs(literal) - 1) + (IF literal < 0 THEN 1 ELSE 0)

\* literalToCms: 2 * (|literal| - 1) + (literal < 0).
literalToCms(literal) == 2 * (Abs(literal) - 1) + (IF literal < 0 THEN 1 ELSE 0)

ClauseToCms(clause) == [ k \in 1..Len(clause) |-> literalToCms(clause[k]) ]

\* getLiteral with the column counted once instead of size times
getLiteralNoColumnStride(y, x, v, size) == 1 + y * size * size + x + v

\* context.getLiteral
getLiteral(y, x, v, size) == 1 + y * size * size + x * size + v

\* board-utils: cellIdx = row * width + col, and back as [x, y].
cellCoord2CellIdx(x, y, grid) == y * grid.width + x
cellIdx2cellCoord(cellIdx, grid) == << cellIdx % grid.width, cellIdx \div grid.width >>

\* The keys of ELEMENT_HANDLERS, and those whose entry is null.
HandlerKeys ==
    { "corner", "center", "colors", "grid", "box", "disjointGroups",
      "givens", "filled", "littleKiller" }
NullHandlers == { "corner", "center", "colors" }

\* const handler = ELEMENT_HANDLERS[element.type];  undefined === handler
HandlerUndefined(type) == type \notin HandlerKeys

\* cantAttempt without the loop over the elements
cantAttemptGridOnly(b) ==
    IF b.grid.width # b.grid.height THEN "Grid is not square." ELSE "null"

\* cantAttempt(board): a message, or "null".
cantAttempt(b) ==
    IF b.grid.width # b.grid.height THEN "Grid is not square."
    ELSE IF \E k \in 1..Len(b.elements) : b.elements[k].type \notin HandlerKeys
         THEN "Cannot handle element."
         ELSE "null"

----------------------------------------------------------------------------
(* pbLib.encodeBoth: clauses satisfiable iff lo <= sum of the weights of   *)
(* the true literals <= hi.  Here: one clause per assignment of the        *)
(* literals that breaks the bound, excluding it; no auxiliary variable.    *)

RECURSIVE WeightOf(_, _, _)
WeightOf(weights, mask, k) ==
    IF k = 0 THEN 0
    ELSE WeightOf(weights, mask, k - 1)
         + (IF (mask \div Pow2(k - 1)) % 2 = 1 THEN weights[k] ELSE 0)

ExcludeAssignment(lits, mask) ==
    [ k \in 1..Len(lits) |->
        IF (mask \div Pow2(k - 1)) % 2 = 1 THEN -lits[k] ELSE lits[k] ]

RECURSIVE PbClauses(_, _, _, _, _)
PbClauses(weights, lits, lo, hi, mask) ==
    IF mask = Pow2(Len(lits)) THEN << >>
    ELSE LET w == WeightOf(weights, mask, Len(lits))
             rest == PbClauses(weights, lits, lo, hi, mask + 1)
         IN  IF w < lo \/ w > hi
             THEN << ExcludeAssignment(lits, mask) >> \o rest
             ELSE rest

encodeBoth(weights, lits, lo, hi, cls, nv) ==
    [ clauses |-> cls \o PbClauses(weights, lits, lo, hi, 0), numVars |-> nv ]

----------------------------------------------------------------------------
(* ELEMENT_HANDLERS *)

Ones(size) == [ k \in 1..size |-> 1 ]

\* mutant of GridFrom: the col constraint is not emitted
RECURSIVE GridFromNoCol(_, _, _, _)
GridFromNoCol(p, nv, cls, size) ==
    IF p > size * size THEN [ clauses |-> cls, numVars |-> nv ]
    ELSE LET a == Product2(size)[p][1]
             b == Product2(size)[p][2]
             cel == [ c \in 1..size |-> getLiteral(a, b, c - 1, size) ]
             row == [ c \in 1..size |-> getLiteral(a, c - 1, b, size) ]
             r1 == encodeBoth(Ones(size), cel, 1, 1, cls, nv)
             r2 == encodeBoth(Ones(size), row, 1, 1, r1.clauses, r1.numVars)
         IN  GridFromNoCol(p + 1, r2.numVars, r2.clauses, size)

\* grid: for every [a, b], exactly one of cel, of row and of col.
RECURSIVE GridFrom(_, _, _, _)
GridFrom(p, nv, cls, size) ==
    IF p > size * size THEN [ clauses |-> cls, numVars |-> nv ]
    ELSE LET a == Product2(size)[p][1]
             b == Product2(size)[p][2]
             cel == [ c \in 1..size |-> getLiteral(a, b, c - 1, size) ]
             row == [ c \in 1..size |-> getLiteral(a, c - 1, b, size) ]
             col == [ c \in 1..size |-> getLiteral(c - 1, a, b, size) ]
             r1 == encodeBoth(Ones(size), cel, 1, 1, cls, nv)
             r2 == encodeBoth(Ones(size), row, 1, 1, r1.clauses, r1.numVars)
             r3 == encodeBoth(Ones(size), col, 1, 1, r2.clauses, r2.numVars)
         IN  GridFrom(p + 1, r3.numVars, r3.clauses, size)

HandlerGrid(nv, element, cls, grid) == GridFrom(1, nv, cls, grid.width)

\* the side of a box, as the box arithmetic has it
BoxWidth == 3

\* mutant of BoxRow: the band of the box is left out
BoxRowNoBand(bx, pos) == pos \div BoxWidth

\* Math.floor(bx / 3) * 3 + Math.floor(pos / 3)  and  (bx % 3) * 3 + (pos % 3)
BoxRow(bx, pos) == (bx \div BoxWidth) * BoxWidth + (pos \div BoxWidth)
BoxCol(bx, pos) == (bx % BoxWidth) * BoxWidth + (pos % BoxWidth)

\* the array 'box' of the box encoder: digit val at every position of box bx
BoxLits(val, bx, size) ==
    [ k \in 1..size |-> getLiteral(BoxRow(bx, k - 1), BoxCol(bx, k - 1), val, size) ]

\* the array 'box' of the disjointGroups encoder: digit val at position pos of every box
DisjointLits(val, pos, size) ==
    [ k \in 1..size |-> getLiteral(BoxRow(k - 1, pos), BoxCol(k - 1, pos), val, size) ]

\* box: for every [val, bx], exactly one of box.  element.value is unused.
RECURSIVE BoxFrom(_, _, _, _)
BoxFrom(p, nv, cls, size) ==
    IF p > size * size THEN [ clauses |-> cls, numVars |-> nv ]
    ELSE LET r == encodeBoth(Ones(size),
                             BoxLits(Product2(size)[p][1], Product2(size)[p][2], size),
                             1, 1, cls, nv)
         IN  BoxFrom(p + 1, r.numVars, r.clauses, size)

HandlerBox(nv, element, cls, grid) == BoxFrom(1, nv, cls, grid.width)

\* the payloads of a disjointGroups element, and if (element.value)
Payloads == { "true", "false", "undefined" }
Truthy(value) == value = "true"

\* disjointGroups: when the payload is truthy, for every [val, pos], exactly one of box.
RECURSIVE DisjointFrom(_, _, _, _)
DisjointFrom(p, nv, cls, size) ==
    IF p > size * size THEN [ clauses |-> cls, numVars |-> nv ]
    ELSE LET r == encodeBoth(Ones(size),
                             DisjointLits(Product2(size)[p][1], Product2(size)[p][2], size),
                             1, 1, cls, nv)
         IN  DisjointFrom(p + 1, r.numVars, r.clauses, size)

HandlerDisjointGroups(nv, element, cls, grid) ==
    IF Truthy(element.value) THEN DisjointFrom(1, nv, cls, grid.width)
    ELSE [ clauses |-> cls, numVars |-> nv ]

\* mutant of GivenLiteral: the digit is not made 0-based
GivenLiteralOneBased(cellIdx, value1, grid) ==
    getLiteral(cellIdx \div grid.width, cellIdx % grid.width, value1, grid.width)

\* givens: one unit clause per entry of element.value, keys in ascending order.
GivenLiteral(cellIdx, value1, grid) ==
    LET v == value1 - 1
        xy == cellIdx2cellCoord(cellIdx, grid)
    IN  getLiteral(xy[2], xy[1], v, grid.width)

HandlerGivens(nv, element, cls, grid) ==
    LET keys == SortedSeq(DOMAIN element.value)
    IN  [ clauses |-> cls \o [ k \in 1..Len(keys) |->
                                 << GivenLiteral(keys[k], element.value[keys[k]], grid) >> ],
          numVars |-> nv ]

\* filled: treated as givens.
HandlerFilled(nv, element, cls, grid) == HandlerGivens(nv, element, cls, grid)

\* board-utils diagonalIdx2diagonalCellCoords: the cells [x, y] of a diagonal, in
\* order of their row.  Indices 0..2N-2 are the diagonals x + y = idx, indices
\* 2N-1..4N-3 the diagonals x - y = idx - (3N - 2).
DiagonalCellSet(diagIdx, grid) ==
    LET N == grid.width
    IN  { c \in (0..(N - 1)) \X (0..(N - 1)) :
            IF diagIdx < 2 * N - 1 THEN c[1] + c[2] = diagIdx
            ELSE c[1] - c[2] = diagIdx - (3 * N - 2) }

diagonalIdx2diagonalCellCoords(diagIdx, grid) ==
    LET cs == DiagonalCellSet(diagIdx, grid)
        rows == SortedSeq({ c[2] : c \in cs })
    IN  [ k \in 1..Len(rows) |-> CHOOSE c \in cs : c[2] = rows[k] ]

\* the weight of digit 1 + v taken as v
KillerWeightZeroBased(v) == v

\* weights.push(1 + v)
KillerWeight(v) == 1 + v

\* lits and weights of one diagonal: for every cell [x, y] in order, every v in order
KillerLits(cells, size) ==
    [ k \in 1..(Len(cells) * size) |->
        getLiteral(cells[1 + (k - 1) \div size][2], cells[1 + (k - 1) \div size][1],
                   (k - 1) % size, size) ]

KillerWeights(cells, size) ==
    [ k \in 1..(Len(cells) * size) |-> KillerWeight((k - 1) % size) ]

\* littleKiller: the entries of element.value in key order; an entry whose sum is
\* not a number is skipped, every other adds encodeBoth(weights, lits, sum, sum).
RECURSIVE KillerFrom(_, _, _, _, _, _)
KillerFrom(keys, p, value, nv, cls, grid) ==
    IF p > Len(keys) THEN [ clauses |-> cls, numVars |-> nv ]
    ELSE LET entry == value[keys[p]]
             cells == diagonalIdx2diagonalCellCoords(keys[p], grid)
             r == IF ~entry.isNumber THEN [ clauses |-> cls, numVars |-> nv ]
                  ELSE encodeBoth(KillerWeights(cells, grid.width),
                                  KillerLits(cells, grid.width),
                                  entry.sum, entry.sum, cls, nv)
         IN  KillerFrom(keys, p + 1, value, r.numVars, r.clauses, grid)

HandlerLittleKiller(nv, element, cls, grid) ==
    KillerFrom(SortedSeq(DOMAIN element.value), 1, element.value, nv, cls, grid)

\* mutant of HandlerSkipped: the skipped element uses up a variable
HandlerSkippedCounted(nv, cls) == [ clauses |-> cls, numVars |-> nv + 1 ]

\* if (null != handler) is false: no handler is called, buffer and counter stay
HandlerSkipped(nv, cls) == [ clauses |-> cls, numVars |-> nv ]

\* One pass of the body of the encoding loop for an element whose handler is
\* looked up in ELEMENT_HANDLERS: undefined (warn) and null handlers add nothing.
ApplyHandler(nv, element, cls, grid) ==
    IF HandlerUndefined(element.type) \/ element.type \in NullHandlers
    THEN HandlerSkipped(nv, cls)
    ELSE CASE element.type = "grid"   -> HandlerGrid(nv, element, cls, grid)
           [] element.type = "box"    -> HandlerBox(nv, element, cls, grid)
           [] element.type = "disjointGroups" -> HandlerDisjointGroups(nv, element, cls, grid)
           [] element.type = "givens" -> HandlerGivens(nv, element, cls, grid)
           [] element.type = "filled" -> HandlerFilled(nv, element, cls, grid)
           [] element.type = "littleKiller" -> HandlerLittleKiller(nv, element, cls, grid)

----------------------------------------------------------------------------
(* The CryptoMiniSat adapter as the driver sees it: a solver holding       *)
(* clauses in CMS literals (variable = code >> 1, negated = code & 1)      *)
(* whose model is any assignment satisfying every clause it holds.         *)

CmsLitTrue(code, M) == ((code % 2) = 0) = ((code \div 2) \in M)

SatModels(cls, nv) ==
    { M \in SUBSET (0..(nv - 1)) :
        \A k \in 1..Len(cls) : \E j \in 1..Len(cls[k]) : CmsLitTrue(cls[k][j], M) }

----------------------------------------------------------------------------
(* Decoding a model (the "SOLVED!" block of solve). *)

\* lbool.TRUE === model[literal - 1]
LitVal(M, literal) == (literal - 1) \in M

\* the triples [y, x, v] whose base literal is TRUE in the model, in product order
TrueTriples(M, size) ==
    SelectSeq(Product3(size), LAMBDA t : LitVal(M, getLiteral(t[1], t[2], t[3], size)))

CellOf(t, grid) == cellCoord2CellIdx(t[2], t[1], grid)

\* mutant of InvalidModel: a cell already set is overwritten without complaint
InvalidModelOverwrites(M, grid) == FALSE

\* undefined !== solution[cellIdx] at some TRUE literal: throw 'INVALID'
InvalidModel(M, grid) ==
    LET tt == TrueTriples(M, grid.width)
    IN  \E i, j \in 1..Len(tt) : i < j /\ CellOf(tt[i], grid) = CellOf(tt[j], grid)

\* mutant of DecodeSolution: the 0-based digit is stored
DecodeSolutionZeroBased(M, grid) ==
    LET tt == SelectSeq(Product3(grid.width),
                        LAMBDA t : (getLiteral(t[1], t[2], t[3], grid.width) - 1) \in M)
    IN  [ c \in { cellCoord2CellIdx(tt[k][2], tt[k][1], grid) : k \in 1..Len(tt) } |->
            tt[CHOOSE k \in 1..Len(tt) : cellCoord2CellIdx(tt[k][2], tt[k][1], grid) = c][3] ]

\* solution[cellIdx] = 1 + v, for each TRUE base literal of a model that is not invalid
DecodeSolution(M, grid) ==
    LET tt == TrueTriples(M, grid.width)
    IN  [ c \in { CellOf(tt[k], grid) : k \in 1..Len(tt) } |->
            1 + tt[CHOOSE k \in 1..Len(tt) : CellOf(tt[k], grid) = c][3] ]

\* mutants of ExcludeClause: the literals are pushed unnegated; nothing is pushed
ExcludeClausePositive(M, size) ==
    LET tt == SelectSeq(Product3(size),
                        LAMBDA t : (getLiteral(t[1], t[2], t[3], size) - 1) \in M)
    IN  [ k \in 1..Len(tt) |-> getLiteral(tt[k][1], tt[k][2], tt[k][3], size) ]
ExcludeClauseEmpty(M, size) == << >>

\* excludeSolutionClause.push(-literal), once per TRUE base literal
ExcludeClause(M, size) ==
    LET tt == TrueTriples(M, size)
    IN  [ k \in 1..Len(tt) |-> -getLiteral(tt[k][1], tt[k][2], tt[k][3], size) ]

----------------------------------------------------------------------------
(* The boards solve is run on. *)

Square(n) == [ width |-> n, height |-> n ]

\* a grid that is not square: one column, two rows
Tall == [ width |-> 1, height |-> 2 ]

Grids == { Square(n) : n \in Sizes } \cup { Tall }

NoValue == << >>

\* the two Latin squares of order 2, as cellIdx -> digit
LatinA == (0 :> 1) @@ (1 :> 2) @@ (2 :> 2) @@ (3 :> 1)
LatinB == (0 :> 2) @@ (1 :> 1) @@ (2 :> 1) @@ (3 :> 2)

ElementsOf(n) ==
    { [ type |-> "grid", value |-> NoValue ],
      [ type |-> "corner", value |-> NoValue ],
      [ type |-> "thermo", value |-> NoValue ] }
    \cup
    ( IF n = 1
      THEN { [ type |-> "givens", value |-> (0 :> 1) ] }
      ELSE { [ type |-> "givens", value |-> LatinA ],
             [ type |-> "givens", value |-> LatinB ],
             [ type |-> "filled", value |-> (0 :> 1) @@ (1 :> 1) @@ (2 :> 2) ] } )

HasGrid(b) == \E k \in 1..Len(b.elements) : b.elements[k].type = "grid"

GivenCells(b) ==
    UNION { DOMAIN b.elements[k].value :
              k \in { h \in 1..Len(b.elements) : b.elements[h].type \in {"givens", "filled"} } }

\* Boards whose solver has few models: a grid element, or all cells but one given.
FewModels(b) ==
    HasGrid(b) \/ Cardinality(GivenCells(b)) >= b.grid.width * b.grid.width - 1

Boards ==
    { b \in UNION { [ grid : {g}, elements : [1..len -> ElementsOf(g.width)] ] :
                      g \in Grids, len \in 0..MaxElements } :
        FewModels(b) }

----------------------------------------------------------------------------
(* Control flow of solve. *)

\* mutant of CancelledBeforeElement: the encoding loop does not look at the token
CancelledIgnored(tok) == FALSE

\* if (cancellationToken.cancelled) return false;   in the encoding loop
CancelledBeforeElement(tok) == tok

\* mutant of the token checks: the token is never observed
CancelledNever(tok) == FALSE

\* if (cancellationToken.cancelled) return false;   after await asyncYield()
CancelledAtSlice(tok) == tok

\* mutants of ReturnFalseInTry: the cancelled run reports completion; the return
\* leaves without running the finally block
ReturnTrueInTry == [ pc |-> "finally", result |-> "true" ]
ReturnFalseNoFinally == [ pc |-> "done", result |-> "false" ]

\* return false inside the try block: the finally block runs next
ReturnFalseInTry == [ pc |-> "finally", result |-> "false" ]

\* an exception inside the try block: the finally block runs, then it propagates
ThrowInTry == [ pc |-> "finally", result |-> "threw" ]

\* mutant of LoopHead: _i <= maxSolutions
LoopHeadInclusive(i, maxSol) == IF i <= maxSol THEN "yield" ELSE "sentinel"

\* for (let _i = 0; _i < maxSolutions; _i++): the loop body starts with the
\* yield, and the loop is followed by the completion callback
LoopHead(i, maxSol) == IF i < maxSol THEN "yield" ELSE "sentinel"

\* mutant of AfterVerdict: FALSE does not break the loop
AfterVerdictNoBreak(st) ==
    CASE st = "UNDEF" -> "yield"
      [] st = "FALSE" -> "yield"
      [] st = "TRUE"  -> "getModel"

\* mutant of AfterVerdict: UNDEF goes back to the solver without the yield
AfterVerdictNoYield(st) ==
    CASE st = "UNDEF" -> "setMaxTime"
      [] st = "FALSE" -> "sentinel"
      [] st = "TRUE"  -> "getModel"

\* do ... while (lbool.UNDEF === status); if (lbool.FALSE === status) break;
AfterVerdict(st) ==
    CASE st = "UNDEF" -> "yield"
      [] st = "FALSE" -> "sentinel"
      [] st = "TRUE"  -> "getModel"

NullSentinel == [ isNull |-> TRUE, map |-> NoValue ]
SolutionEntry(sol) == [ isNull |-> FALSE, map |-> sol ]

Solutions(log) == { log[k].map : k \in { h \in 1..Len(log) : ~log[h].isNull } }
NumSolutions(log) == Cardinality({ h \in 1..Len(log) : ~log[h].isNull })
NumNull(log) == Cardinality({ h \in 1..Len(log) : log[h].isNull })

----------------------------------------------------------------------------
(* State after the caller has built the arguments of solve. *)

FreshRun ==
    /\ pc = "loadPbLib"
    /\ elemIdx = 1
    /\ clauses = << >>
    /\ numVars = 0
    /\ handle = "none"
    /\ newCount = 0
    /\ freeCount = 0
    /\ satVars = 0
    /\ satClauses = << >>
    /\ clauseIdx = 1
    /\ loopI = 0
    /\ status = "none"
    /\ satModel = {}
    /\ solution = NoValue
    /\ excludeSolutionClause = << >>
    /\ cbLog = << >>
    /\ result = "pending"
    /\ solveCalls = 0
    /\ undefCount = 0
    /\ warnLog = << >>
    /\ yieldCount = 0
    /\ budgetSet = FALSE

\* no box-shaped encoder is run on its own
NoHandlerRun ==
    /\ hType = "none"
    /\ hValue = "undefined"
    /\ hOuter = 1
    /\ hBox = << >>
    /\ hCalls = 0
    /\ hDone = TRUE

\* no element was added to the board of the editor, and none was chosen as tool
NoElementEvents ==
    /\ eElements = << >>
    /\ eList = << >>
    /\ eHistory = << >>
    /\ eTool = 0
    /\ ePrevTool = 0
    /\ eNextUid = 1
    /\ eLast = [ type |-> "none", threw |-> FALSE, id |-> 0 ]

\* the thermo tool is not bound
NoThermoGesture ==
    /\ tThermos = << >>
    /\ tRef = 0
    /\ tLen = 0
    /\ tDragging = FALSE
    /\ tNextId = 1
    /\ tDigits = << >>
    /\ tConflicts = << >>

\* no board is shown in the editor
NoEditor ==
    /\ wGrid = Square(1)
    /\ wElements = << >>
    /\ wDigits = << >>
    /\ warningState = << >>
    /\ wPrevFlagged = {}

Init ==
    /\ board \in Boards
    /\ maxSolutions \in 0..MaxSol
    /\ cancelled \in BOOLEAN
    /\ cancelAt = IF cancelled THEN 0 ELSE -1
    /\ cancelPc = IF cancelled THEN "before" ELSE "none"
    /\ FreshRun
    /\ run = 1
    /\ prevSolutions = {}
    /\ NoEditor
    /\ NoHandlerRun
    /\ NoElementEvents
    /\ NoThermoGesture

----------------------------------------------------------------------------
(* The host: it runs while solve is suspended in an await, and may set the *)
(* token then.                                                             *)

Cancel ==
    /\ pc \in {"loadPbLib", "awaitSat", "yield"}
    /\ ~cancelled
    /\ cancelled' = TRUE
    /\ cancelAt' = Len(cbLog)
    /\ cancelPc' = pc
    /\ UNCHANGED << editVars, thermoVars, handlerVars, warnVars, histVars, board, maxSolutions, pc, elemIdx, clauses, numVars, handle, newCount,
                    freeCount, satVars, satClauses, clauseIdx, loopI, status, satModel,
                    solution, excludeSolutionClause, cbLog, result, solveCalls,
                    undefCount, run, prevSolutions >>

----------------------------------------------------------------------------
(* solve, up to the creation of the solver. *)

\* const pbLib = await loadPbLib; ... let numVars = 1 + baseVars;
Start ==
    /\ pc = "loadPbLib"
    /\ pc' = "encode"
    /\ clauses' = << >>
    /\ numVars' = 1 + Pow3(board.grid.width)
    /\ elemIdx' = 1
    /\ UNCHANGED << editVars, thermoVars, handlerVars, warnVars, histVars, board, maxSolutions, cancelled, cancelAt, cancelPc, handle, newCount,
                    freeCount, satVars, satClauses, clauseIdx, loopI, status, satModel,
                    solution, excludeSolutionClause, cbLog, result, solveCalls,
                    undefCount, run, prevSolutions >>

\* for (const element of ...) { if (cancelled) return false;
EncodeCancelled ==
    /\ pc = "encode"
    /\ elemIdx <= Len(board.elements)
    /\ CancelledBeforeElement(cancelled)
    /\ result' = "false"
    /\ pc' = "done"
    /\ UNCHANGED << editVars, thermoVars, handlerVars, warnVars, histVars, board, maxSolutions, cancelled, cancelAt, cancelPc, elemIdx, clauses,
                    numVars, handle, newCount, freeCount, satVars, satClauses, clauseIdx,
                    loopI, status, satModel, solution, excludeSolutionClause, cbLog,
                    solveCalls, undefCount, run, prevSolutions >>

\* ... numVars = handler(numVars, element, context); }
EncodeElement ==
    /\ pc = "encode"
    /\ elemIdx <= Len(board.elements)
    /\ ~CancelledBeforeElement(cancelled)
    /\ LET r == ApplyHandler(numVars, board.elements[elemIdx], clauses, board.grid)
       IN  /\ clauses' = r.clauses
           /\ numVars' = r.numVars
    /\ warnLog' = IF HandlerUndefined(board.elements[elemIdx].type)
                  THEN Append(warnLog, board.elements[elemIdx].type)   \* console.warn
                  ELSE warnLog
    /\ elemIdx' = elemIdx + 1
    /\ UNCHANGED << editVars, thermoVars, handlerVars, warnVars, yieldCount, budgetSet, board, maxSolutions, cancelled,
                    cancelAt, cancelPc, pc, handle,
                    newCount, freeCount, satVars, satClauses, clauseIdx, loopI, status,
                    satModel, solution, excludeSolutionClause, cbLog, result, solveCalls,
                    undefCount, run, prevSolutions >>

\* the encoding loop ends: const sat = await cryptoMiniSatPromise;
EncodeDone ==
    /\ pc = "encode"
    /\ elemIdx > Len(board.elements)
    /\ pc' = "awaitSat"
    /\ UNCHANGED << editVars, thermoVars, handlerVars, warnVars, histVars, board, maxSolutions, cancelled, cancelAt, cancelPc, elemIdx, clauses,
                    numVars, handle, newCount, freeCount, satVars, satClauses, clauseIdx,
                    loopI, status, satModel, solution, excludeSolutionClause, cbLog,
                    result, solveCalls, undefCount, run, prevSolutions >>

\* const satSolverPtr = sat.cmsat_new();   (before the try block)
CmsatNew ==
    /\ pc = "awaitSat"
    /\ \/ /\ handle' = "live"
          /\ newCount' = newCount + 1
          /\ pc' = "newVars"
          /\ UNCHANGED result
       \/ /\ result' = "threw"
          /\ pc' = "done"
          /\ UNCHANGED << handle, newCount >>
    /\ UNCHANGED << editVars, thermoVars, handlerVars, warnVars, histVars, board, maxSolutions, cancelled, cancelAt, cancelPc, elemIdx, clauses,
                    numVars, freeCount, satVars, satClauses, clauseIdx, loopI, status,
                    satModel, solution, excludeSolutionClause, cbLog, solveCalls,
                    undefCount, run, prevSolutions >>

----------------------------------------------------------------------------
(* solve, inside try { ... } finally { sat.cmsat_free(satSolverPtr); }.    *)
(* Every adapter call and the callback may throw.                          *)

\* sat.cmsat_new_vars(satSolverPtr, numVars);
NewVars ==
    /\ pc = "newVars"
    /\ \/ /\ satVars' = numVars
          /\ clauseIdx' = 1
          /\ pc' = "addClauses"
          /\ UNCHANGED result
       \/ /\ pc' = ThrowInTry.pc
          /\ result' = ThrowInTry.result
          /\ UNCHANGED << satVars, clauseIdx >>
    /\ UNCHANGED << editVars, thermoVars, handlerVars, warnVars, histVars, board, maxSolutions, cancelled, cancelAt, cancelPc, elemIdx, clauses,
                    numVars, handle, newCount, freeCount, satClauses, loopI, status,
                    satModel, solution, excludeSolutionClause, cbLog, solveCalls,
                    undefCount, run, prevSolutions >>

\* for (const clause of context.clauses) sat.cmsat_add_clause(ptr, clause.map(literalToCms));
AddClause ==
    /\ pc = "addClauses"
    /\ clauseIdx <= Len(clauses)
    /\ \/ /\ satClauses' = Append(satClauses, ClauseToCms(clauses[clauseIdx]))
          /\ clauseIdx' = clauseIdx + 1
          /\ UNCHANGED << pc, result >>
       \/ /\ pc' = ThrowInTry.pc
          /\ result' = ThrowInTry.result
          /\ UNCHANGED << satClauses, clauseIdx >>
    /\ UNCHANGED << editVars, thermoVars, handlerVars, warnVars, histVars, board, maxSolutions, cancelled, cancelAt, cancelPc, elemIdx, clauses,
                    numVars, handle, newCount, freeCount, satVars, loopI, status,
                    satModel, solution, excludeSolutionClause, cbLog, solveCalls,
                    undefCount, run, prevSolutions >>

\* mutant of ClausesDone: the clause buffer is kept
ClausesDoneKeepBuffer ==
    /\ pc = "addClauses"
    /\ clauseIdx > Len(clauses)
    /\ loopI' = 0
    /\ pc' = LoopHead(0, maxSolutions)
    /\ UNCHANGED << editVars, thermoVars, handlerVars, warnVars, histVars, board, maxSolutions, cancelled, cancelAt, cancelPc,
                    elemIdx, clauses, numVars, handle, newCount, freeCount, satVars,
                    satClauses, clauseIdx, status, satModel, solution,
                    excludeSolutionClause, cbLog, result, solveCalls, undefCount, run,
                    prevSolutions >>

\* context.clauses.length = 0;  and the enumeration loop is entered with _i = 0
ClausesDone ==
    /\ pc = "addClauses"
    /\ clauseIdx > Len(clauses)
    /\ clauses' = << >>
    /\ loopI' = 0
    /\ pc' = LoopHead(0, maxSolutions)
    /\ UNCHANGED << editVars, thermoVars, handlerVars, warnVars, histVars, board, maxSolutions, cancelled, cancelAt, cancelPc, elemIdx, numVars,
                    handle, newCount, freeCount, satVars, satClauses, clauseIdx, status,
                    satModel, solution, excludeSolutionClause, cbLog, result, solveCalls,
                    undefCount, run, prevSolutions >>

\* await asyncYield() resumes: if (cancellationToken.cancelled) return false;
Resume ==
    /\ pc = "yield"
    /\ yieldCount' = yieldCount + 1
    /\ IF CancelledAtSlice(cancelled)
       THEN /\ pc' = ReturnFalseInTry.pc
            /\ result' = ReturnFalseInTry.result
       ELSE /\ pc' = "setMaxTime"
            /\ UNCHANGED result
    /\ UNCHANGED << editVars, thermoVars, handlerVars, warnVars, warnLog, budgetSet, board, maxSolutions, cancelled, cancelAt, cancelPc, elemIdx, clauses,
                    numVars, handle, newCount, freeCount, satVars, satClauses, clauseIdx,
                    loopI, status, satModel, solution, excludeSolutionClause, cbLog,
                    solveCalls, undefCount, run, prevSolutions >>

\* sat.cmsat_set_max_time(satSolverPtr, 0.1);
SetMaxTime ==
    /\ pc = "setMaxTime"
    /\ \/ /\ pc' = "solve"
          /\ budgetSet' = TRUE
          /\ UNCHANGED result
       \/ /\ pc' = ThrowInTry.pc
          /\ result' = ThrowInTry.result
          /\ UNCHANGED budgetSet
    /\ UNCHANGED << editVars, thermoVars, handlerVars, warnVars, warnLog, yieldCount, board, maxSolutions, cancelled, cancelAt, cancelPc, elemIdx, clauses,
                    numVars, handle, newCount, freeCount, satVars, satClauses, clauseIdx,
                    loopI, status, satModel, solution, excludeSolutionClause, cbLog,
                    solveCalls, undefCount, run, prevSolutions >>

\* status = sat.cmsat_solve(satSolverPtr);  the solver is a black box: it may run
\* out of time (UNDEF), and when it answers TRUE its model is any model of its clauses.
CmsatSolve ==
    /\ pc = "solve"
    /\ solveCalls' = solveCalls + 1
    /\ budgetSet' = FALSE
    /\ LET models == SatModels(satClauses, satVars)
       IN  \/ /\ undefCount < MaxUndef
              /\ undefCount' = undefCount + 1
              /\ status' = "UNDEF"
              /\ pc' = AfterVerdict("UNDEF")
              /\ UNCHANGED << satModel, result >>
           \/ /\ models = {}
              /\ status' = "FALSE"
              /\ pc' = AfterVerdict("FALSE")
              /\ UNCHANGED << satModel, result, undefCount >>
           \/ /\ \E M \in models : satModel' = M
              /\ status' = "TRUE"
              /\ pc' = AfterVerdict("TRUE")
              /\ UNCHANGED << result, undefCount >>
           \/ /\ pc' = ThrowInTry.pc
              /\ result' = ThrowInTry.result
              /\ UNCHANGED << status, satModel, undefCount >>
    /\ UNCHANGED << editVars, thermoVars, handlerVars, warnVars, warnLog, yieldCount, board, maxSolutions, cancelled, cancelAt, cancelPc, elemIdx, clauses,
                    numVars, handle, newCount, freeCount, satVars, satClauses, clauseIdx,
                    loopI, solution, excludeSolutionClause, cbLog, run, prevSolutions >>

\* const model = sat.cmsat_get_model(satSolverPtr); and the decoding loop
Decode ==
    /\ pc = "getModel"
    /\ \/ /\ ~InvalidModel(satModel, board.grid)
          /\ solution' = DecodeSolution(satModel, board.grid)
          /\ excludeSolutionClause' = ExcludeClause(satModel, board.grid.width)
          /\ pc' = "callback"
          /\ UNCHANGED result
       \/ /\ InvalidModel(satModel, board.grid)     \* throw 'INVALID'
          /\ pc' = ThrowInTry.pc
          /\ result' = ThrowInTry.result
          /\ UNCHANGED << solution, excludeSolutionClause >>
       \/ /\ pc' = ThrowInTry.pc                    \* cmsat_get_model throws
          /\ result' = ThrowInTry.result
          /\ UNCHANGED << solution, excludeSolutionClause >>
    /\ UNCHANGED << editVars, thermoVars, handlerVars, warnVars, histVars, board, maxSolutions, cancelled, cancelAt, cancelPc, elemIdx, clauses,
                    numVars, handle, newCount, freeCount, satVars, satClauses, clauseIdx,
                    loopI, status, satModel, cbLog, solveCalls, undefCount, run,
                    prevSolutions >>

\* The caller's callback runs synchronously: it may set the token and may throw.
InvokeCallback(entry, set, next) ==
    /\ cbLog' = Append(cbLog, entry)
    /\ cancelled' = (cancelled \/ set)
    /\ cancelAt' = IF ~cancelled /\ set THEN Len(cbLog) + 1 ELSE cancelAt
    /\ cancelPc' = IF ~cancelled /\ set THEN pc ELSE cancelPc
    /\ pc' = next.pc
    /\ result' = next.result

\* onSolutionFoundOrComplete(solution);
Callback ==
    /\ pc = "callback"
    /\ \E set \in BOOLEAN :
          \/ InvokeCallback(SolutionEntry(solution), set,
                            [ pc |-> "addBlocking", result |-> result ])
          \/ InvokeCallback(SolutionEntry(solution), set, ThrowInTry)
    /\ UNCHANGED << editVars, thermoVars, handlerVars, warnVars, histVars, board, maxSolutions, elemIdx, clauses, numVars, handle, newCount,
                    freeCount, satVars, satClauses, clauseIdx, loopI, status, satModel,
                    solution, excludeSolutionClause, solveCalls, undefCount, run,
                    prevSolutions >>

\* sat.cmsat_add_clause(satSolverPtr, excludeSolutionClause.map(literalToCms)); _i++
AddBlocking ==
    /\ pc = "addBlocking"
    /\ \/ /\ satClauses' = Append(satClauses, ClauseToCms(excludeSolutionClause))
          /\ loopI' = loopI + 1
          /\ pc' = LoopHead(loopI + 1, maxSolutions)
          /\ UNCHANGED result
       \/ /\ pc' = ThrowInTry.pc
          /\ result' = ThrowInTry.result
          /\ UNCHANGED << satClauses, loopI >>
    /\ UNCHANGED << editVars, thermoVars, handlerVars, warnVars, histVars, board, maxSolutions, cancelled, cancelAt, cancelPc, elemIdx, clauses,
                    numVars, handle, newCount, freeCount, satVars, clauseIdx, status,
                    satModel, solution, excludeSolutionClause, cbLog, solveCalls,
                    undefCount, run, prevSolutions >>

\* onSolutionFoundOrComplete(null); return true;
Complete ==
    /\ pc = "sentinel"
    /\ \E set \in BOOLEAN :
          \/ InvokeCallback(NullSentinel, set, [ pc |-> "finally", result |-> "true" ])
          \/ InvokeCallback(NullSentinel, set, ThrowInTry)
    /\ UNCHANGED << editVars, thermoVars, handlerVars, warnVars, histVars, board, maxSolutions, elemIdx, clauses, numVars, handle, newCount,
                    freeCount, satVars, satClauses, clauseIdx, loopI, status, satModel,
                    solution, excludeSolutionClause, solveCalls, undefCount, run,
                    prevSolutions >>

\* finally { sat.cmsat_free(satSolverPtr); }  then the promise settles
Finally ==
    /\ pc = "finally"
    /\ handle' = "freed"
    /\ freeCount' = freeCount + 1
    /\ pc' = "done"
    /\ UNCHANGED << editVars, thermoVars, handlerVars, warnVars, histVars, board, maxSolutions, cancelled, cancelAt, cancelPc, elemIdx, clauses,
                    numVars, newCount, satVars, satClauses, clauseIdx, loopI, status,
                    satModel, solution, excludeSolutionClause, cbLog, result, solveCalls,
                    undefCount, run, prevSolutions >>

----------------------------------------------------------------------------
(* The caller feeds the same board to solve a second time, after a first   *)
(* run that completed without cancellation.                                *)

SolveAgain ==
    /\ pc = "done"
    /\ run = 1
    /\ result = "true"
    /\ ~cancelled
    /\ run' = 2
    /\ prevSolutions' = Solutions(cbLog)
    /\ pc' = "loadPbLib"
    /\ elemIdx' = 1
    /\ clauses' = << >>
    /\ numVars' = 0
    /\ handle' = "none"
    /\ newCount' = 0
    /\ freeCount' = 0
    /\ satVars' = 0
    /\ satClauses' = << >>
    /\ clauseIdx' = 1
    /\ loopI' = 0
    /\ status' = "none"
    /\ satModel' = {}
    /\ solution' = NoValue
    /\ excludeSolutionClause' = << >>
    /\ cbLog' = << >>
    /\ result' = "pending"
    /\ solveCalls' = 0
    /\ undefCount' = 0
    /\ warnLog' = << >>
    /\ yieldCount' = 0
    /\ budgetSet' = FALSE
    /\ UNCHANGED << editVars, thermoVars, handlerVars, warnVars, board, maxSolutions, cancelled, cancelAt, cancelPc >>

Next ==
    \/ Cancel
    \/ Start
    \/ EncodeCancelled
    \/ EncodeElement
    \/ EncodeDone
    \/ CmsatNew
    \/ NewVars
    \/ AddClause
    \/ ClausesDone
    \/ Resume
    \/ SetMaxTime
    \/ CmsatSolve
    \/ Decode
    \/ Callback
    \/ AddBlocking
    \/ Complete
    \/ Finally
    \/ SolveAgain

Spec == Init /\ [][Next]_vars

----------------------------------------------------------------------------
(* The same driver on 2x2 boards that carry little-killer sums.  Diagonal  *)
(* 4 is the main diagonal (cells 0 and 3), diagonal 1 the other one.       *)

\* a sum payload that is a number, and one that is not (typeof sum is not 'number')
NumberSum(n) == [ isNumber |-> TRUE, sum |-> n ]
NotANumber == [ isNumber |-> FALSE, sum |-> 0 ]

KillerElements ==
    { [ type |-> "grid", value |-> NoValue ],
      [ type |-> "littleKiller", value |-> (4 :> NumberSum(2)) ],
      [ type |-> "littleKiller", value |-> (4 :> NumberSum(3)) ],
      [ type |-> "littleKiller", value |-> (1 :> NotANumber) @@ (4 :> NumberSum(4)) ],
      [ type |-> "littleKiller", value |-> (1 :> NotANumber) ] }

KillerBoards ==
    { b \in UNION { [ grid : {Square(2)}, elements : [1..len -> KillerElements] ] :
                      len \in 1..MaxElements } :
        HasGrid(b) }

InitKiller ==
    /\ board \in KillerBoards
    /\ maxSolutions \in 0..MaxSol
    /\ cancelled \in BOOLEAN
    /\ cancelAt = IF cancelled THEN 0 ELSE -1
    /\ cancelPc = IF cancelled THEN "before" ELSE "none"
    /\ FreshRun
    /\ run = 1
    /\ prevSolutions = {}
    /\ NoEditor
    /\ NoHandlerRun
    /\ NoElementEvents
    /\ NoThermoGesture

SpecKiller == InitKiller /\ [][Next]_vars

----------------------------------------------------------------------------
(* Notions the properties are stated with. *)

Cells(b) == 0..(b.grid.width * b.grid.width - 1)
Digits(b) == 1..b.grid.width

LastIsNull(log) == log # << >> /\ log[Len(log)].isNull

\* the clauses and numVars the encoding loop leaves, when the token is not set
RECURSIVE EncodeFrom(_, _, _, _)
EncodeFrom(b, k, nv, cls) ==
    IF k > Len(b.elements) THEN [ clauses |-> cls, numVars |-> nv ]
    ELSE LET r == ApplyHandler(nv, b.elements[k], cls, b.grid)
         IN  EncodeFrom(b, k + 1, r.numVars, r.clauses)

EncodeAll(b) == EncodeFrom(b, 1, 1 + Pow3(b.grid.width), << >>)

\* the models of the encoded board
BoardModels(b) ==
    LET e == EncodeAll(b)
    IN  SatModels([ k \in 1..Len(e.clauses) |-> ClauseToCms(e.clauses[k]) ], e.numVars)

\* the number of distinct cellIdx -> digit maps the models of the board decode to
BoardSolutionCount(b) ==
    Cardinality({ DecodeSolution(M, b.grid) :
                    M \in { X \in BoardModels(b) : ~InvalidModel(X, b.grid) } })

\* a run in which the token was never set and nothing threw
CleanRunDone == pc = "done" /\ ~cancelled /\ result # "threw"

----------------------------------------------------------------------------
(* C1: in every run of solve the callback gets null at most once, a null   *)
(* invocation is the last invocation, solve returns true exactly when the  *)
(* sentinel was delivered (true implies the log ends with null, false      *)
(* implies no null was ever passed), and a run that ends by UNSAT or by    *)
(* exhausting maxSolutions without cancellation and without an exception   *)
(* delivers the sentinel and returns true.                                 *)
C1_SentinelLastAndResult ==
    /\ NumNull(cbLog) <= 1
    /\ \A k \in 1..Len(cbLog) : cbLog[k].isNull => k = Len(cbLog)
    /\ result = "true" => LastIsNull(cbLog)
    /\ result = "false" => NumNull(cbLog) = 0
    /\ CleanRunDone => result = "true" /\ LastIsNull(cbLog)
    /\ (pc = "done" /\ status = "FALSE" /\ result # "threw") => result = "true"

C1_Witness ==
    /\ pc = "done"
    /\ result = "true"
    /\ NumSolutions(cbLog) = 2
    /\ Len(cbLog) = 3
    /\ cbLog[3].isNull

----------------------------------------------------------------------------
(* C2 as stated: once the host has set the token, at whatever moment, no   *)
(* callback (solution or null) is invoked afterwards and a run that        *)
(* returns returns false.                                                  *)
C2_NoCallbackAfterAnyCancel ==
    /\ cancelled => Len(cbLog) = cancelAt
    /\ (pc = "done" /\ cancelled /\ result # "threw") => result = "false"

\* The token was set after the last check the run makes of it: inside the
\* completion callback, inside the callback of the maxSolutions-th solution,
\* or, with maxSolutions = 0, once no element is left to encode.
CancelAfterLastCheck ==
    \/ cancelPc = "sentinel"
    \/ cancelPc = "callback" /\ cancelAt = maxSolutions
    \/ maxSolutions = 0 /\ (cancelPc = "awaitSat" \/ Len(board.elements) = 0)

(* C2 amended: after the token is set no further solution is ever          *)
(* reported; if it was set before a token check of the run (before an      *)
(* element is encoded, or before or during the yield that precedes a       *)
(* solver call, which includes the callback of every solution but the      *)
(* maxSolutions-th) no callback at all follows and a run that returns      *)
(* returns false; if it was set after the last check, the null sentinel is *)
(* still delivered, once, and solve returns true.                          *)
C2_CancelObservedAtChecks ==
    /\ cancelled => \A k \in 1..Len(cbLog) : k > cancelAt => cbLog[k].isNull
    /\ (cancelled /\ ~CancelAfterLastCheck) => Len(cbLog) = cancelAt
    /\ (pc = "done" /\ cancelled /\ result # "threw") =>
          IF CancelAfterLastCheck
          THEN result = "true" /\ LastIsNull(cbLog)
               /\ NumSolutions(cbLog) = IF status = "FALSE" THEN loopI ELSE maxSolutions
          ELSE result = "false" /\ Len(cbLog) = cancelAt

\* the token is set inside the callback of the first of several solutions,
\* and the run then returns false with nothing further reported
C2_Witness ==
    /\ pc = "done"
    /\ cancelled
    /\ cancelPc = "callback"
    /\ cancelAt = 1
    /\ maxSolutions >= 2
    /\ result = "false"
    /\ Len(cbLog) = 1

----------------------------------------------------------------------------
\* where an adapter call on satSolverPtr, or the callback, is about to run
InTry ==
    pc \in { "newVars", "addClauses", "yield", "setMaxTime", "solve", "getModel",
             "callback", "addBlocking", "sentinel", "finally" }

(* C3: the handle cmsat_new created is released by cmsat_free exactly once *)
(* on every exit path (completion, UNSAT, cancellation, 'INVALID', an      *)
(* adapter or callback exception), and no adapter call on it follows the   *)
(* release: the handle is live exactly while solve is inside the try       *)
(* block, a settled run has as many frees as news, and nothing runs on a   *)
(* freed handle.                                                           *)
C3_HandleReleasedOnce ==
    /\ newCount <= 1
    /\ freeCount <= newCount
    /\ pc = "done" => freeCount = newCount
    /\ InTry <=> handle = "live"
    /\ handle = "live" <=> (newCount = 1 /\ freeCount = 0)
    /\ handle = "freed" => pc = "done" /\ result # "pending"

\* the 'INVALID' exit: a model with two digits in one cell, handle released
C3_Witness ==
    /\ pc = "done"
    /\ result = "threw"
    /\ status = "TRUE"
    /\ InvalidModel(satModel, board.grid)
    /\ newCount = 1
    /\ freeCount = 1
    /\ handle = "freed"

----------------------------------------------------------------------------
(* C4: the callback gets at most maxSolutions solutions; a run in which    *)
(* the token is never set (and nothing throws) ends with the sentinel      *)
(* after them; with maxSolutions = 0 cmsat_solve is never called and the   *)
(* sentinel is the only thing delivered.                                   *)
C4_AtMostMaxSolutions ==
    /\ NumSolutions(cbLog) <= maxSolutions
    /\ CleanRunDone =>
          /\ LastIsNull(cbLog)
          /\ NumSolutions(cbLog) = Len(cbLog) - 1
    /\ maxSolutions = 0 =>
          /\ solveCalls = 0
          /\ status = "none"
          /\ NumSolutions(cbLog) = 0
          /\ CleanRunDone => cbLog = << NullSentinel >>

\* maxSolutions solutions of a board that has more, then the sentinel
C4_Witness ==
    /\ pc = "done"
    /\ maxSolutions = 1
    /\ BoardSolutionCount(board) = 2
    /\ Len(cbLog) = 2
    /\ ~cbLog[1].isNull
    /\ cbLog[2].isNull

----------------------------------------------------------------------------
\* the negations, in CMS literals, of the base literals a reported map stands for
BlockedCodes(m, grid) ==
    { literalToCms(-GivenLiteral(c, m[c], grid)) : c \in DOMAIN m }

(* C5: no two solutions reported in one run are the same map, on every     *)
(* board (with or without a grid element, accepted by cantAttempt or not): *)
(* when the driver is about to solve again after a report, the last clause *)
(* the solver was given is the negation of exactly the base literals of    *)
(* the last reported map, one blocking clause per reported solution.       *)
C5_SolutionsDistinct ==
    /\ \A i, j \in 1..Len(cbLog) :
          (i < j /\ ~cbLog[i].isNull /\ ~cbLog[j].isNull) => cbLog[i].map # cbLog[j].map
    /\ (pc \in {"yield", "setMaxTime", "solve", "getModel"} /\ loopI >= 1) =>
          /\ NumSolutions(cbLog) = loopI
          /\ Len(satClauses) = Len(EncodeAll(board).clauses) + loopI
          /\ Range(satClauses[Len(satClauses)]) =
                BlockedCodes(cbLog[loopI].map, board.grid)
          /\ Len(satClauses[Len(satClauses)]) = Cardinality(DOMAIN cbLog[loopI].map)

\* a board without grid that cantAttempt accepts: two different maps are
\* reported, one of them from a model with no true base literal
C5_Witness ==
    /\ pc = "done"
    /\ cantAttempt(board) = "null"
    /\ ~HasGrid(board)
    /\ NumSolutions(cbLog) = 2
    /\ cbLog[2].map = NoValue
    /\ cbLog[1].map # NoValue

----------------------------------------------------------------------------
FullAssignment(m, b) ==
    /\ DOMAIN m = Cells(b)
    /\ \A c \in Cells(b) : m[c] \in Digits(b)

(* C6 as stated: on every board for which cantAttempt returns null, each   *)
(* reported solution has a key for every cell and a digit in 1..N there.   *)
C6_EveryCellAssigned ==
    cantAttempt(board) = "null" =>
        \A k \in 1..Len(cbLog) : ~cbLog[k].isNull => FullAssignment(cbLog[k].map, board)

(* C6 amended: on every board for which cantAttempt returns null and that  *)
(* contains a grid element, each reported solution has a key for every     *)
(* cell and a digit in 1..N there.                                         *)
C6_EveryCellAssignedWithGrid ==
    (cantAttempt(board) = "null" /\ HasGrid(board)) =>
        \A k \in 1..Len(cbLog) : ~cbLog[k].isNull => FullAssignment(cbLog[k].map, board)

C6_Witness ==
    /\ cantAttempt(board) = "null"
    /\ HasGrid(board)
    /\ board.grid.width = 2
    /\ NumSolutions(cbLog) = 2
    /\ pc = "done"

----------------------------------------------------------------------------
\* the token was set before the encoding loop examined its first element
SetBeforeEncoding == cancelled /\ cancelPc \in {"before", "loadPbLib"}

(* C7: if the token is set when an element is about to be encoded, solve   *)
(* returns false at once: the encoder of that element does not run (the    *)
(* check precedes each element's encoder, so no element is encoded once    *)
(* the token is set), no callback is invoked and no solver handle is ever  *)
(* created or released.                                                    *)
C7_CancelDuringEncoding ==
    /\ (SetBeforeEncoding /\ Len(board.elements) >= 1) =>
          /\ pc \in {"loadPbLib", "encode", "done"}
          /\ elemIdx = 1
          /\ clauses = << >>
          /\ cbLog = << >>
          /\ handle = "none"
          /\ newCount = 0
          /\ freeCount = 0
          /\ pc = "done" => result = "false"
    /\ (pc = "encode" /\ elemIdx > 1) => ~SetBeforeEncoding
    /\ (pc = "done" /\ result = "false" /\ handle = "none") =>
          /\ SetBeforeEncoding
          /\ cbLog = << >>
          /\ newCount = 0

C7_Witness ==
    /\ pc = "done"
    /\ result = "false"
    /\ cancelPc = "before"
    /\ Len(board.elements) = 2
    /\ HasGrid(board)
    /\ elemIdx = 1
    /\ handle = "none"
    /\ cbLog = << >>

----------------------------------------------------------------------------
(* C8: the first UNSAT verdict ends the enumeration: once cmsat_solve has  *)
(* answered FALSE no further solve call is made; and when the encoded      *)
(* clauses of the board are unsatisfiable, a run in which the token is     *)
(* never set (and nothing throws) invokes the callback exactly once, with  *)
(* null, and returns true.                                                 *)
C8_UnsatEndsEnumeration ==
    /\ status = "FALSE" =>
          /\ pc \in {"sentinel", "finally", "done"}
          /\ solveCalls = loopI + undefCount + 1
    /\ (pc = "done" /\ status = "FALSE" /\ result # "threw") =>
          /\ result = "true"
          /\ LastIsNull(cbLog)
          /\ NumSolutions(cbLog) = loopI
    /\ (CleanRunDone /\ cbLog # << NullSentinel >>) => BoardModels(board) # {}
    /\ (CleanRunDone /\ cbLog = << NullSentinel >>) => result = "true"

\* a grid whose first row is filled with the same digit twice
C8_Witness ==
    /\ CleanRunDone
    /\ HasGrid(board)
    /\ BoardModels(board) = {}
    /\ maxSolutions >= 2
    /\ status = "FALSE"
    /\ solveCalls >= 1
    /\ cbLog = << NullSentinel >>
    /\ result = "true"

----------------------------------------------------------------------------
\* every row and every column of the N x N grid m holds each digit once
ValidAssignment(m, b) ==
    LET n == b.grid.width
    IN  /\ FullAssignment(m, b)
        /\ \A a \in 0..(n - 1) : \A d \in 1..n :
              /\ Cardinality({ x \in 0..(n - 1) : m[a * n + x] = d }) = 1
              /\ Cardinality({ y \in 0..(n - 1) : m[y * n + a] = d }) = 1

\* the board is the grid element plus a givens element holding m, in either order
GridPlusGivens(b, m) ==
    /\ Len(b.elements) = 2
    /\ \E k \in 1..2 :
          /\ b.elements[k].type = "grid"
          /\ b.elements[3 - k].type = "givens"
          /\ b.elements[3 - k].value = m

GivensOf(b) ==
    { b.elements[k].value : k \in { h \in 1..Len(b.elements) : b.elements[h].type = "givens" } }

(* C9: on a board made of the grid element and a givens element holding a  *)
(* valid full assignment, a run with maxSolutions >= 2 in which the token  *)
(* is never set (and nothing throws) reports exactly that assignment and   *)
(* then the sentinel; no other map is ever reported on such a board.       *)
C9_FullGivensRoundTrip ==
    \A m \in GivensOf(board) :
        (GridPlusGivens(board, m) /\ ValidAssignment(m, board)) =>
            /\ Solutions(cbLog) \subseteq {m}
            /\ (CleanRunDone /\ maxSolutions >= 2) =>
                  cbLog = << SolutionEntry(m), NullSentinel >>

C9_Witness ==
    /\ CleanRunDone
    /\ maxSolutions >= 2
    /\ board.grid.width = 2
    /\ GridPlusGivens(board, LatinB)
    /\ ValidAssignment(LatinB, board)
    /\ cbLog = << SolutionEntry(LatinB), NullSentinel >>
    /\ solveCalls >= 2

----------------------------------------------------------------------------
\* a second run of the same board has completed, like the first, without
\* the token being set
BothRunsComplete == run = 2 /\ CleanRunDone /\ result = "true"

(* C10 as stated: two complete runs of the same board with the same        *)
(* maxSolutions report the same set of solutions, whatever maxSolutions is *)
(* and whatever models the solver picks.                                   *)
C10_SameSetAlways == BothRunsComplete => Solutions(cbLog) = prevSolutions

(* C10 amended: two complete runs of the same board, with the same         *)
(* maxSolutions, report the same set of solutions when the board contains  *)
(* a grid element and maxSolutions is at least the number of solutions of  *)
(* the board.                                                              *)
C10_SameSetWhenExhaustive ==
    (BothRunsComplete /\ HasGrid(board) /\ Solutions(cbLog) # prevSolutions) =>
        maxSolutions < BoardSolutionCount(board)

\* both runs enumerate the two solutions of a board, in different orders
C10_Witness ==
    /\ BothRunsComplete
    /\ HasGrid(board)
    /\ BoardSolutionCount(board) = 2
    /\ maxSolutions = 2
    /\ Solutions(cbLog) = prevSolutions
    /\ Cardinality(prevSolutions) = 2
    /\ cbLog[1].map = LatinB

----------------------------------------------------------------------------
(* The warning rules of the line elements (lines.ts).  An element's value  *)
(* is the sequence of its lines in Object.values order, a line the         *)
(* sequence of its cells; digits maps the filled cells to their digits;    *)
(* warnings maps the cells a rule has written to the boolean written last. *)

\* warnings[cellIdx] = b
SetWarning(warnings, cellIdx, b) ==
    [ c \in DOMAIN warnings \cup {cellIdx} |-> IF c = cellIdx THEN b ELSE warnings[c] ]

\* the cells the bitset flags
Flagged(warnings) == { c \in DOMAIN warnings : warnings[c] }

\* cellsArr.reverse()
Reverse(s) == [ k \in 1..Len(s) |-> s[Len(s) + 1 - k] ]

\* Number.NEGATIVE_INFINITY and Number.POSITIVE_INFINITY: beyond every digit
NegativeInfinity == -1000000
PositiveInfinity == 1000000

\* the first loop of getThermoWarnings over a line, from its k-th cell on
RECURSIVE ThermoForward(_, _, _, _, _, _)
ThermoForward(cellsArr, k, digits, warnings, maxSeen, strict) ==
    IF k > Len(cellsArr) THEN warnings
    ELSE LET cellIdx == cellsArr[k]
         IN  IF cellIdx \notin DOMAIN digits
             THEN ThermoForward(cellsArr, k + 1, digits, warnings, maxSeen, strict)
             ELSE LET digit == digits[cellIdx]
                  IN  IF maxSeen < digit
                      THEN ThermoForward(cellsArr, k + 1, digits, warnings, digit, strict)
                      ELSE IF maxSeen = digit
                      THEN ThermoForward(cellsArr, k + 1, digits,
                                         SetWarning(warnings, cellIdx, strict), maxSeen, strict)
                      ELSE ThermoForward(cellsArr, k + 1, digits,
                                         SetWarning(warnings, cellIdx, TRUE), maxSeen, strict)

\* the second loop, over the reversed line
RECURSIVE ThermoBackward(_, _, _, _, _, _)
ThermoBackward(cellsArr, k, digits, warnings, minSeen, strict) ==
    IF k > Len(cellsArr) THEN warnings
    ELSE LET cellIdx == cellsArr[k]
         IN  IF cellIdx \notin DOMAIN digits
             THEN ThermoBackward(cellsArr, k + 1, digits, warnings, minSeen, strict)
             ELSE LET digit == digits[cellIdx]
                  IN  IF minSeen > digit
                      THEN ThermoBackward(cellsArr, k + 1, digits, warnings, digit, strict)
                      ELSE IF minSeen = digit
                      THEN ThermoBackward(cellsArr, k + 1, digits,
                                          IF strict THEN SetWarning(warnings, cellIdx, TRUE)
                                          ELSE warnings,
                                          minSeen, strict)
                      ELSE ThermoBackward(cellsArr, k + 1, digits,
                                          SetWarning(warnings, cellIdx, TRUE), minSeen, strict)

\* getThermoWarnings(value, digits, warnings, strict), from the p-th line on
RECURSIVE ThermoLinesFrom(_, _, _, _, _)
ThermoLinesFrom(value, p, digits, warnings, strict) ==
    IF p > Len(value) THEN warnings
    ELSE LET cellsArr == value[p]
             w1 == ThermoForward(cellsArr, 1, digits, warnings, NegativeInfinity, strict)
             w2 == ThermoBackward(Reverse(cellsArr), 1, digits, w1, PositiveInfinity, strict)
         IN  ThermoLinesFrom(value, p + 1, digits, w2, strict)

getThermoWarnings(value, digits, warnings, strict) ==
    ThermoLinesFrom(value, 1, digits, warnings, strict)

\* thermo passing strict = false
ThermoStrictOff == FALSE

\* thermoInfo.getWarnings passes strict = true, slowThermoInfo.getWarnings false
ThermoStrict == TRUE
SlowThermoStrict == FALSE

\* cellsArr.slice(0, n)
SliceFirst(cellsArr, n) == SubSeq(cellsArr, 1, IF n < Len(cellsArr) THEN n ELSE Len(cellsArr))

\* cellsArr.slice(-n): a negative start counts from the end; -0 is 0, the start
SliceFromEnd(cellsArr, n) ==
    IF n = 0 THEN cellsArr
    ELSE SubSeq(cellsArr, (IF n < Len(cellsArr) THEN Len(cellsArr) - n ELSE 0) + 1, Len(cellsArr))

\* cellsA and cellsB of palindromeInfo.getWarnings
PalindromeSplit(cellsArr) ==
    LET cellsA == SliceFirst(cellsArr, Len(cellsArr) \div 2)
    IN  [ cellsA |-> cellsA, cellsB |-> Reverse(SliceFromEnd(cellsArr, Len(cellsA))) ]

\* board-utils warnClones: for every position both lists have, flag both cells
\* when both hold a digit and the digits differ
RECURSIVE warnClones(_, _, _, _, _)
warnClones(digits, cellsA, cellsB, warnings, i) ==
    IF i > Len(cellsA) \/ i > Len(cellsB) THEN warnings
    ELSE LET a == cellsA[i]
             b == cellsB[i]
         IN  IF a \in DOMAIN digits /\ b \in DOMAIN digits /\ digits[a] # digits[b]
             THEN warnClones(digits, cellsA, cellsB,
                             SetWarning(SetWarning(warnings, a, TRUE), b, TRUE), i + 1)
             ELSE warnClones(digits, cellsA, cellsB, warnings, i + 1)

RECURSIVE PalindromeLinesFrom(_, _, _, _)
PalindromeLinesFrom(value, p, digits, warnings) ==
    IF p > Len(value) THEN warnings
    ELSE LET split == PalindromeSplit(value[p])
         IN  PalindromeLinesFrom(value, p + 1, digits,
                                 warnClones(digits, split.cellsA, split.cellsB, warnings, 1))

palindromeGetWarnings(value, digits, warnings) == PalindromeLinesFrom(value, 1, digits, warnings)

\* [...new Set(arrayObj2array(cells))]: every cell once, at its first position
RECURSIVE UniqueCells(_)
UniqueCells(cellsArr) ==
    IF cellsArr = << >> THEN << >>
    ELSE LET init == UniqueCells(SubSeq(cellsArr, 1, Len(cellsArr) - 1))
             last == cellsArr[Len(cellsArr)]
         IN  IF last \in Range(init) THEN init ELSE Append(init, last)

\* the digits left in the order of the line
SeenUnsorted(seen) == seen

\* seen.sort((a, b) => a - b)
RECURSIVE SortNumbers(_)
SortNumbers(seen) ==
    IF seen = << >> THEN << >>
    ELSE LET m == CHOOSE k \in 1..Len(seen) : \A h \in 1..Len(seen) : seen[k] <= seen[h]
         IN  << seen[m] >>
             \o SortNumbers([ h \in 1..(Len(seen) - 1) |-> IF h < m THEN seen[h] ELSE seen[h + 1] ])

\* the body of the renban loop for one line
RenbanLine(cellsArr, digits, warnings) ==
    LET uniqueCellsArr == UniqueCells(cellsArr)
    IN  IF \E k \in 1..Len(uniqueCellsArr) : uniqueCellsArr[k] \notin DOMAIN digits
        THEN warnings                                        \* continue outer: not complete
        ELSE LET seen == SortNumbers([ k \in 1..Len(uniqueCellsArr) |-> digits[uniqueCellsArr[k]] ])
             IN  IF \E i \in 2..Len(seen) : seen[i - 1] + 1 # seen[i]
                 THEN [ c \in DOMAIN warnings \cup Range(uniqueCellsArr) |->
                          IF c \in Range(uniqueCellsArr) THEN TRUE ELSE warnings[c] ]
                 ELSE warnings

RECURSIVE RenbanLinesFrom(_, _, _, _)
RenbanLinesFrom(value, p, digits, warnings) ==
    IF p > Len(value) THEN warnings
    ELSE RenbanLinesFrom(value, p + 1, digits, RenbanLine(value[p], digits, warnings))

renbanGetWarnings(value, digits, warnings) == RenbanLinesFrom(value, 1, digits, warnings)

\* warnings[idx] = true for every cell of the set
WarnAll(warnings, cells) ==
    [ c \in DOMAIN warnings \cup cells |-> IF c \in cells THEN TRUE ELSE warnings[c] ]

\* the cells left in the array after shift() and pop()
Interior(cellsArr) == SubSeq(cellsArr, 2, Len(cellsArr) - 1)

\* headIdx and tailIdx are cells that hold a digit.  On an empty array shift()
\* gives undefined, on a one-cell array pop() does, and digits[undefined] is undefined.
EndsPresent(cellsArr, digits) ==
    /\ Len(cellsArr) >= 2
    /\ cellsArr[1] \in DOMAIN digits
    /\ cellsArr[Len(cellsArr)] \in DOMAIN digits

MinOf(a, b) == IF a <= b THEN a ELSE b
MaxOf(a, b) == IF a <= b THEN b ELSE a

\* between: one line.  Lines of fewer than 3 cells are skipped.
BetweenLine(cellsArr, digits, warnings) ==
    IF 3 > Len(cellsArr) \/ ~EndsPresent(cellsArr, digits) THEN warnings
    ELSE LET headIdx == cellsArr[1]
             tailIdx == cellsArr[Len(cellsArr)]
             min == MinOf(digits[headIdx], digits[tailIdx])
             max == MaxOf(digits[headIdx], digits[tailIdx])
             body == Interior(cellsArr)
             bad == { body[j] : j \in { i \in 1..Len(body) :
                                          /\ body[i] \in DOMAIN digits
                                          /\ (digits[body[i]] <= min \/ max <= digits[body[i]]) } }
         IN  IF bad = {} THEN warnings
             ELSE WarnAll(warnings, bad \cup {headIdx, tailIdx})

RECURSIVE BetweenLinesFrom(_, _, _, _)
BetweenLinesFrom(value, p, digits, warnings) ==
    IF p > Len(value) THEN warnings
    ELSE BetweenLinesFrom(value, p + 1, digits, BetweenLine(value[p], digits, warnings))

betweenGetWarnings(value, digits, warnings) == BetweenLinesFrom(value, 1, digits, warnings)

\* actualSum: the sum of the digits of the body cells that hold one
RECURSIVE ActualSum(_, _, _)
ActualSum(body, digits, k) ==
    IF k = 0 THEN 0
    ELSE ActualSum(body, digits, k - 1)
         + (IF body[k] \in DOMAIN digits THEN digits[body[k]] ELSE 0)

\* mutant of SumsDisagree: only a sum that is too large counts
SumsDisagreeOverOnly(targetSum, actualSum, allFilled) == targetSum < actualSum

\* targetSum < actualSum || (allFilled && targetSum !== actualSum)
SumsDisagree(targetSum, actualSum, allFilled) ==
    targetSum < actualSum \/ (allFilled /\ targetSum # actualSum)

\* doubleArrow: one line.  Lines of fewer than 3 cells are skipped.
DoubleArrowLine(cellsArr, digits, warnings) ==
    IF 3 > Len(cellsArr) \/ ~EndsPresent(cellsArr, digits) THEN warnings
    ELSE LET headIdx == cellsArr[1]
             tailIdx == cellsArr[Len(cellsArr)]
             body == Interior(cellsArr)
             targetSum == digits[headIdx] + digits[tailIdx]
             actualSum == ActualSum(body, digits, Len(body))
             allFilled == \A j \in 1..Len(body) : body[j] \in DOMAIN digits
         IN  IF SumsDisagree(targetSum, actualSum, allFilled)
             THEN WarnAll(warnings, {headIdx, tailIdx} \cup Range(body))
             ELSE warnings

RECURSIVE DoubleArrowLinesFrom(_, _, _, _)
DoubleArrowLinesFrom(value, p, digits, warnings) ==
    IF p > Len(value) THEN warnings
    ELSE DoubleArrowLinesFrom(value, p + 1, digits,
                              DoubleArrowLine(value[p], digits, warnings))

doubleArrowGetWarnings(value, digits, warnings) ==
    DoubleArrowLinesFrom(value, 1, digits, warnings)

\* mutant of LockoutDelta: the delta of the German whisper
LockoutDeltaNoMinus(width) == (width + 1) \div 2

\* const delta = ((grid.width + 1) >> 1) - 1;
LockoutDelta(width) == ((width + 1) \div 2) - 1

\* lockout: one line, of any length.
LockoutLine(cellsArr, grid, digits, warnings) ==
    IF ~EndsPresent(cellsArr, digits) THEN warnings
    ELSE LET headIdx == cellsArr[1]
             tailIdx == cellsArr[Len(cellsArr)]
             min == MinOf(digits[headIdx], digits[tailIdx])
             max == MaxOf(digits[headIdx], digits[tailIdx])
             body == Interior(cellsArr)
             close == IF max - min < LockoutDelta(grid.width)
                      THEN WarnAll(warnings, {headIdx, tailIdx})
                      ELSE warnings
             bad == { body[j] : j \in { i \in 1..Len(body) :
                                          /\ body[i] \in DOMAIN digits
                                          /\ min <= digits[body[i]]
                                          /\ digits[body[i]] <= max } }
         IN  IF bad = {} THEN close
             ELSE WarnAll(close, bad \cup {headIdx, tailIdx})

RECURSIVE LockoutLinesFrom(_, _, _, _, _)
LockoutLinesFrom(value, p, grid, digits, warnings) ==
    IF p > Len(value) THEN warnings
    ELSE LockoutLinesFrom(value, p + 1, grid, digits,
                          LockoutLine(value[p], grid, digits, warnings))

lockoutGetWarnings(value, grid, digits, warnings) ==
    LockoutLinesFrom(value, 1, grid, digits, warnings)

\* the deltaFunc of the German and of the Dutch whisper
GermanDelta(gridWidth) == (gridWidth + 1) \div 2
DutchDelta(gridWidth) == ((gridWidth + 1) \div 2) - 1

\* whisper: one line; neighbours that both hold a digit and differ by less than delta
WhisperLine(cellsArr, delta, digits, warnings) ==
    LET close == { i \in 2..Len(cellsArr) :
                     /\ cellsArr[i - 1] \in DOMAIN digits
                     /\ cellsArr[i] \in DOMAIN digits
                     /\ Abs(digits[cellsArr[i - 1]] - digits[cellsArr[i]]) < delta }
    IN  WarnAll(warnings, UNION { { cellsArr[i - 1], cellsArr[i] } : i \in close })

RECURSIVE WhisperLinesFrom(_, _, _, _, _)
WhisperLinesFrom(value, p, delta, digits, warnings) ==
    IF p > Len(value) THEN warnings
    ELSE WhisperLinesFrom(value, p + 1, delta, digits,
                          WhisperLine(value[p], delta, digits, warnings))

whisperGetWarnings(value, delta, digits, warnings) ==
    WhisperLinesFrom(value, 1, delta, digits, warnings)

\* handler.getWarnings(value, grid, digits, warnings) of ELEMENT_HANDLERS[type];
\* an element without handler or without getWarnings is skipped
GetWarnings(element, grid, digits, warnings) ==
    CASE element.type = "thermo" ->
            getThermoWarnings(element.value, digits, warnings, ThermoStrict)
      [] element.type = "slowThermo" ->
            getThermoWarnings(element.value, digits, warnings, SlowThermoStrict)
      [] element.type = "palindrome" -> palindromeGetWarnings(element.value, digits, warnings)
      [] element.type = "renban" -> renbanGetWarnings(element.value, digits, warnings)
      [] element.type = "between" -> betweenGetWarnings(element.value, digits, warnings)
      [] element.type = "doubleArrow" ->
            doubleArrowGetWarnings(element.value, digits, warnings)
      [] element.type = "lockout" -> lockoutGetWarnings(element.value, grid, digits, warnings)
      [] element.type = "whisper" ->
            whisperGetWarnings(element.value, GermanDelta(grid.width), digits, warnings)
      [] element.type = "dutchWhisper" ->
            whisperGetWarnings(element.value, DutchDelta(grid.width), digits, warnings)
      [] OTHER -> warnings

----------------------------------------------------------------------------
(* elementStores.ts: the watch on the board's elements evaluates the       *)
(* warnings anew after every change of the board.                          *)

\* the bitset of the evaluation before, taken up again
KeptBitset(previous) == previous

\* const warnings: IdxBitset<Geometry.CELL> = {};  whatever warningState holds
NewBitset(previous) == << >>

\* for (const { type, value } of Object.values(newElements)) handler.getWarnings(...)
RECURSIVE EvaluateFrom(_, _, _, _, _)
EvaluateFrom(elements, k, grid, digits, warnings) ==
    IF k > Len(elements) THEN warnings
    ELSE EvaluateFrom(elements, k + 1, grid, digits,
                      GetWarnings(elements[k], grid, digits, warnings))

EvaluateWarnings(elements, grid, digits, previous) ==
    EvaluateFrom(elements, 1, grid, digits, NewBitset(previous))

\* warningState.update({ 'cells': warnings }): the bitset is replaced wholesale
UpdateCells(old, warnings) == warnings

\* the board of the editor: a 3x3 grid whose lines run over the cells 0..3
WarnGrid == Square(3)
WarnCells == 0..3
WarnDigits == 1..WarnGrid.width

WarnElements ==
    { [ type |-> "thermo", value |-> << <<0, 1, 2>>, <<3, 1>> >> ],
      [ type |-> "slowThermo", value |-> << <<0, 1, 2>> >> ],
      [ type |-> "slowThermo", value |-> << <<3, 1>> >> ],
      [ type |-> "palindrome",
        value |-> << << >>, <<3>>, <<0, 1>>, <<0, 1, 2>>, <<0, 1, 2, 3>> >> ],
      [ type |-> "renban", value |-> << <<0, 1, 2>>, <<3, 0, 3>> >> ],
      [ type |-> "corner", value |-> << >> ] }

\* elements is a map keyed by id: every element is there once, in any order
WarnBoards ==
    { es \in UNION { [1..len -> WarnElements] : len \in 0..MaxElements } :
        \A i, j \in 1..Len(es) : i # j => es[i] # es[j] }

\* solve is not running
NoSolve ==
    /\ board = [ grid |-> WarnGrid, elements |-> << >> ]
    /\ maxSolutions = 0
    /\ cancelled = FALSE
    /\ cancelAt = -1
    /\ cancelPc = "none"
    /\ FreshRun
    /\ run = 1
    /\ prevSolutions = {}

solveVars ==
    << board, maxSolutions, cancelled, cancelAt, cancelPc, pc, elemIdx, clauses, numVars,
       handle, newCount, freeCount, satVars, satClauses, clauseIdx, loopI, status,
       satModel, solution, excludeSolutionClause, cbLog, result, solveCalls, undefCount,
       run, prevSolutions, warnLog, yieldCount, budgetSet >>

\* the watch is registered with an immediate first call
InitWarn ==
    /\ NoSolve
    /\ NoHandlerRun
    /\ NoElementEvents
    /\ NoThermoGesture
    /\ wGrid = WarnGrid
    /\ wElements \in WarnBoards
    /\ wDigits = << >>
    /\ warningState = UpdateCells(<< >>, EvaluateWarnings(wElements, wGrid, wDigits, << >>))
    /\ wPrevFlagged = {}

\* the watch callback, after the board changed to newElements with digits newDigits
ElementsWatch(newElements, newDigits) ==
    /\ wElements' = newElements
    /\ wDigits' = newDigits
    /\ warningState' = UpdateCells(warningState,
                                  EvaluateWarnings(newElements, wGrid, newDigits, warningState))
    /\ wPrevFlagged' = Flagged(warningState)
    /\ UNCHANGED << wGrid, solveVars, handlerVars, editVars, thermoVars >>

\* the user enters a digit into a cell
SetDigit ==
    \E c \in WarnCells, d \in WarnDigits :
       /\ ~(c \in DOMAIN wDigits /\ wDigits[c] = d)
       /\ ElementsWatch(wElements,
                         [ x \in DOMAIN wDigits \cup {c} |-> IF x = c THEN d ELSE wDigits[x] ])

\* the user erases the digit of a cell
ClearDigit ==
    \E c \in DOMAIN wDigits :
       ElementsWatch(wElements, [ x \in DOMAIN wDigits \ {c} |-> wDigits[x] ])

\* the user deletes an element
RemoveElement ==
    \E k \in 1..Len(wElements) :
       ElementsWatch([ h \in 1..(Len(wElements) - 1) |->
                         IF h < k THEN wElements[h] ELSE wElements[h + 1] ],
                     wDigits)

NextWarn ==
    \/ SetDigit
    \/ ClearDigit
    \/ RemoveElement

SpecWarn == InitWarn /\ [][NextWarn]_vars

----------------------------------------------------------------------------
\* the positions of the elements whose type is not a key of ELEMENT_HANDLERS
UnknownElements(b) ==
    { k \in 1..Len(b.elements) :
        b.elements[k].type \notin { "corner", "center", "colors", "grid", "box",
                                    "disjointGroups", "givens", "filled",
                                    "littleKiller" } }

(* C11: cantAttempt returns 'Grid is not square.' whenever width differs   *)
(* from height, whatever the elements are; on a square grid it returns a   *)
(* 'Cannot handle' message when some element's type is not a key of the    *)
(* handler table, and null otherwise; so on every board cantAttempt        *)
(* accepts, the encoding loop of solve never takes the undefined-handler   *)
(* ('Ignoring constraint') branch.                                         *)
C11_CantAttemptGuardsEncoding ==
    /\ board.grid.width # board.grid.height =>
          cantAttempt(board) = "Grid is not square."
    /\ (board.grid.width = board.grid.height /\ UnknownElements(board) # {}) =>
          cantAttempt(board) = "Cannot handle element."
    /\ (board.grid.width = board.grid.height /\ UnknownElements(board) = {}) =>
          cantAttempt(board) = "null"
    /\ cantAttempt(board) = "null" => warnLog = << >>
    /\ Len(warnLog) = Cardinality({ k \in UnknownElements(board) : k < elemIdx })

\* an accepted board went through the whole encoding loop, a null handler included
C11_Witness ==
    /\ cantAttempt(board) = "null"
    /\ Len(board.elements) = 2
    /\ board.elements[1].type = "corner"
    /\ elemIdx = 3
    /\ pc = "newVars"

\* a grid that is not square is rejected although an element is unknown too
C11_WitnessNotSquare ==
    /\ board.grid = Tall
    /\ UnknownElements(board) # {}
    /\ warnLog # << >>
----------------------------------------------------------------------------
\* the largest grid size the literal numbering is examined for
MaxLiteralSize == 4

Triples(n) == (0..(n - 1)) \X (0..(n - 1)) \X (0..(n - 1))

\* on [0,n)^3 getLiteral is one-to-one and its values are exactly 1..n^3
LiteralsNumberTriples(n) ==
    /\ \A s \in Triples(n), t \in Triples(n) :
          getLiteral(s[1], s[2], s[3], n) = getLiteral(t[1], t[2], t[3], n) => s = t
    /\ { getLiteral(t[1], t[2], t[3], n) : t \in Triples(n) } = 1..Pow3(n)

LiteralsNumberTriplesUpToMax == \A n \in 1..MaxLiteralSize : LiteralsNumberTriples(n)

(* C12: getLiteral(y,x,v) = 1 + y*N*N + x*N + v is a bijection from        *)
(* [0,N)^3 onto [1,N^3]: distinct triples get distinct literals, every     *)
(* value of 1..N^3 is the literal of a triple, 0 is never produced; and    *)
(* the decoding, which iterates over all triples in product order, meets   *)
(* literal k at the k-th triple, so the triples it finds true are exactly  *)
(* the triples of the variables the model sets.                            *)
C12_GetLiteralBijection ==
    /\ LiteralsNumberTriplesUpToMax
    /\ LET n == board.grid.width
           p == Product3(n)
       IN  /\ Len(p) = Pow3(n)
           /\ \A k \in 1..Len(p) : getLiteral(p[k][1], p[k][2], p[k][3], n) = k
           /\ pc = "callback" =>
                 { getLiteral(t[1], t[2], t[3], n) - 1 :
                     t \in Range(TrueTriples(satModel, n)) }
                 = satModel \cap (0..(Pow3(n) - 1))

\* the model of a 2x2 board was decoded: four of the eight variables are true
C12_Witness ==
    /\ pc = "callback"
    /\ board.grid = Square(2)
    /\ Cardinality(satModel \cap (0..7)) = 4
    /\ DOMAIN solution = 0..3
----------------------------------------------------------------------------
\* the sum of the digits a solution map has on the cells [x, y] of a diagonal
RECURSIVE DiagonalSum(_, _, _, _)
DiagonalSum(sol, cells, k, grid) ==
    IF k = 0 THEN 0
    ELSE LET c == cellCoord2CellIdx(cells[k][1], cells[k][2], grid)
         IN  DiagonalSum(sol, cells, k - 1, grid) + (IF c \in DOMAIN sol THEN sol[c] ELSE 0)

\* the board with the entries of its littleKiller elements that are not numbers removed
NumericEntriesOnly(b) ==
    [ b EXCEPT !.elements =
        [ k \in 1..Len(b.elements) |->
            IF b.elements[k].type # "littleKiller" THEN b.elements[k]
            ELSE [ type |-> "littleKiller",
                   value |-> [ d \in { h \in DOMAIN b.elements[k].value :
                                          b.elements[k].value[h].isNumber }
                                 |-> b.elements[k].value[d] ] ] ] ]

(* C13: on a board with grid and a littleKiller element that maps a        *)
(* diagonal to a numeric sum, the digits of every reported solution along  *)
(* that diagonal add up to exactly that sum; entries whose payload is not  *)
(* a number add no clause and leave numVars as it was: the encoding is     *)
(* that of the board without those entries.                                *)
C13_LittleKillerSum ==
    /\ HasGrid(board) =>
          \A h \in 1..Len(cbLog), k \in 1..Len(board.elements) :
             (~cbLog[h].isNull /\ board.elements[k].type = "littleKiller") =>
                \A d \in DOMAIN board.elements[k].value :
                   board.elements[k].value[d].isNumber =>
                      LET cells == diagonalIdx2diagonalCellCoords(d, board.grid)
                      IN  DiagonalSum(cbLog[h].map, cells, Len(cells), board.grid)
                            = board.elements[k].value[d].sum
    /\ pc = "awaitSat" =>
          /\ clauses = EncodeAll(NumericEntriesOnly(board)).clauses
          /\ numVars = EncodeAll(NumericEntriesOnly(board)).numVars

\* the main diagonal must sum to 4: the one solution reported has 2 in both corners
C13_Witness ==
    /\ pc = "done"
    /\ HasGrid(board)
    /\ \E k \in 1..Len(board.elements) :
          /\ board.elements[k].type = "littleKiller"
          /\ DOMAIN board.elements[k].value = {1, 4}
    /\ Len(cbLog) = 2
    /\ ~cbLog[1].isNull
    /\ cbLog[1].map[0] = 2 /\ cbLog[1].map[3] = 2
    /\ cbLog[2].isNull
----------------------------------------------------------------------------
(* Notions the properties of the warning rules are stated with. *)

\* the elements of the editor's board of one type
ElementsOfType(type) == { k \in 1..Len(wElements) : wElements[k].type = type }

\* the positions of a line whose cell holds a digit
Present(line) == { j \in 1..Len(line) : line[j] \in DOMAIN wDigits }

\* what one element's rule flags when it starts from an empty bitset
FlaggedAlone(element) == Flagged(GetWarnings(element, wGrid, wDigits, << >>))

\* the same for a single line of the element
FlaggedByLine(element, line) ==
    FlaggedAlone([ type |-> element.type, value |-> << line >> ])

\* a position of the line whose digit is at most the digit of an earlier position
Offending(line) ==
    { j \in Present(line) : \E i \in Present(line) : i < j /\ wDigits[line[j]] <= wDigits[line[i]] }

(* C14: strict thermo.  A line whose present digits (empty cells skipped)  *)
(* strictly increase from bulb to tip gets no cell flagged; in a line      *)
(* where some present digit is less than or equal to an earlier present    *)
(* digit, at least the cell of that digit is flagged.                      *)
C14_ThermoStrict ==
    \A k \in ElementsOfType("thermo") :
       LET value == wElements[k].value
       IN  /\ \A p \in 1..Len(value) :
                /\ Offending(value[p]) = {} => FlaggedByLine(wElements[k], value[p]) = {}
                /\ \A j \in Offending(value[p]) : value[p][j] \in FlaggedAlone(wElements[k])
           /\ Len(wElements) = 1 =>
                /\ \A p \in 1..Len(value) :
                      \A j \in Offending(value[p]) : value[p][j] \in Flagged(warningState)
                /\ (\A p \in 1..Len(value) : Offending(value[p]) = {}) =>
                      Flagged(warningState) = {}

\* a thermo alone on the board, 2 2 on its first line: the second cell repeats the first
C14_Witness ==
    /\ Len(wElements) = 1
    /\ wElements[1].type = "thermo"
    /\ DOMAIN wDigits = {0, 1}
    /\ wDigits[0] = 2 /\ wDigits[1] = 2
    /\ 1 \in Flagged(warningState)
    /\ 3 \notin Flagged(warningState)

\* a thermo alone on the board whose present digits increase: 1 _ 3, nothing flagged
C14_WitnessIncreasing ==
    /\ Len(wElements) = 1
    /\ wElements[1].type = "thermo"
    /\ DOMAIN wDigits = {0, 2}
    /\ wDigits[0] = 1 /\ wDigits[2] = 3
    /\ Flagged(warningState) = {}
----------------------------------------------------------------------------
\* the positions of the first half of a line whose digit and mirror digit are
\* both present and differ
Unmirrored(line) ==
    { i \in 1..(Len(line) \div 2) :
        /\ i \in Present(line)
        /\ (Len(line) + 1 - i) \in Present(line)
        /\ wDigits[line[i]] # wDigits[line[Len(line) + 1 - i]] }

(* C15: palindrome.  For every line length, 0 and 1 and the odd lengths    *)
(* included, the line is split into its first floor(len/2) cells and the   *)
(* reversed last floor(len/2) cells; a line whose digits read the same     *)
(* from both ends gets no warning, every position whose digit differs from *)
(* its mirror is flagged together with the mirror, and the middle cell of  *)
(* a line of odd length is never compared.                                 *)
C15_PalindromeHalves ==
    \A k \in ElementsOfType("palindrome") :
       \A p \in 1..Len(wElements[k].value) :
          LET line == wElements[k].value[p]
              n == Len(line)
              h == n \div 2
              split == PalindromeSplit(line)
              flagged == FlaggedByLine(wElements[k], line)
          IN  /\ split.cellsA = SubSeq(line, 1, h)
              /\ split.cellsB = Reverse(SubSeq(line, n - h + 1, n))
              /\ Unmirrored(line) = {} => flagged = {}
              /\ \A i \in Unmirrored(line) : line[i] \in flagged /\ line[n + 1 - i] \in flagged
              /\ n % 2 = 1 => line[h + 1] \notin Range(split.cellsA) \cup Range(split.cellsB)

----------------------------------------------------------------------------
\* the digits of a line's cells are pairwise different and leave no gap
Consecutive(cells) ==
    LET ds == { wDigits[c] : c \in cells }
    IN  \/ cells = {}
        \/ /\ Cardinality(ds) = Cardinality(cells)
           /\ \A a \in ds, b \in ds : a - b < Cardinality(cells)

(* C16: renban.  A line with at least one unfilled cell among its unique   *)
(* cells gets no warning; a line whose unique cells are all filled gets    *)
(* every one of its cells flagged exactly when the sorted digits have an   *)
(* adjacent pair that is not consecutive (a repeated digit is such a       *)
(* pair), and none otherwise.                                              *)
C16_Renban ==
    \A k \in ElementsOfType("renban") :
       LET value == wElements[k].value
           expected(line) ==
              IF Range(line) \subseteq DOMAIN wDigits /\ ~Consecutive(Range(line))
              THEN Range(line) ELSE {}
       IN  /\ \A p \in 1..Len(value) : FlaggedByLine(wElements[k], value[p]) = expected(value[p])
           /\ Len(wElements) = 1 =>
                 Flagged(warningState) = UNION { expected(value[p]) : p \in 1..Len(value) }

\* renban alone: 2 1 3 on the line 0,1,2 is a run, 2 2 on the cells 0 and 3 repeats
C16_Witness ==
    /\ Len(wElements) = 1
    /\ wElements[1].type = "renban"
    /\ DOMAIN wDigits = 0..3
    /\ wDigits[0] = 2 /\ wDigits[1] = 1 /\ wDigits[2] = 3 /\ wDigits[3] = 2
    /\ Flagged(warningState) = {0, 3}
----------------------------------------------------------------------------
----------------------------------------------------------------------------
\* the elements in the order f of their positions
Reordered(elements, f) == [ k \in 1..Len(elements) |-> elements[f[k]] ]

(* C18: the order among the elements is not observable: for fixed digits   *)
(* and a fixed set of elements the flagged cells are the same for every    *)
(* order in which the elements' getWarnings rules are applied to the       *)
(* shared bitset (in particular for a thermo and a slow thermo, or two     *)
(* slow-thermo lines, that share a cell).                                  *)
C18_OrderNotObservable ==
    \A f \in Permutations(1..Len(wElements)) :
       Flagged(EvaluateWarnings(Reordered(wElements, f), wGrid, wDigits, warningState))
         = Flagged(warningState)
----------------------------------------------------------------------------
\* the step in which cmsat_solve answers lbool.UNDEF
UndeterminedStep == pc = "solve" /\ undefCount' = undefCount + 1

(* C19: an 'undetermined' answer of the solver is a retry: it invokes no   *)
(* callback, adds no clause and does not use up one of the maxSolutions    *)
(* iterations, and leads back to the yield.  Before every solve call, the  *)
(* first and every retry, the driver has yielded once and then checked the *)
(* token: a solve call is about to be made only with exactly one completed *)
(* yield more than solve calls, there are never more solve calls than      *)
(* yields, and no solve call is made once the token is set.                *)
C19_UndeterminedIsRetry ==
    /\ [][UndeterminedStep =>
             /\ status' = "UNDEF"
             /\ pc' = "yield"
             /\ cbLog' = cbLog
             /\ satClauses' = satClauses
             /\ loopI' = loopI]_vars
    /\ [](pc \in {"setMaxTime", "solve"} => ~cancelled /\ yieldCount = solveCalls + 1)
    /\ [](pc = "yield" => yieldCount = solveCalls)
    /\ [](solveCalls <= yieldCount /\ yieldCount <= solveCalls + 1)
    /\ [](solveCalls <= loopI + undefCount + 1)

\* a run with a retry still reported maxSolutions = 2 solutions in 3 solve calls
C19_Witness ==
    /\ pc = "done"
    /\ result = "true"
    /\ undefCount = 1
    /\ maxSolutions = 2
    /\ NumSolutions(cbLog) = 2
    /\ solveCalls = 3
    /\ yieldCount = 3
----------------------------------------------------------------------------
\* the clauses of the encoded board as the solver is fed them
FedClauses(b) ==
    LET e == EncodeAll(b)
    IN  [ k \in 1..Len(e.clauses) |-> ClauseToCms(e.clauses[k]) ]

\* solve is inside the enumeration loop or at the completion callback
InLoop ==
    pc \in { "yield", "setMaxTime", "solve", "getModel", "callback", "addBlocking",
             "sentinel" }

\* the handle exists and nothing was declared yet: the buffer is the encoded board
BufferEncoded ==
    /\ clauses = EncodeAll(board).clauses
    /\ numVars = EncodeAll(board).numVars
    /\ satVars = 0
    /\ satClauses = << >>

\* while the buffer is fed: the solver holds its first clauseIdx - 1 clauses, in order
BufferPrefixFed ==
    /\ satVars = numVars
    /\ clauseIdx <= Len(clauses) + 1
    /\ satClauses = [ k \in 1..(clauseIdx - 1) |-> ClauseToCms(clauses[k]) ]

\* at the first pass of the loop the solver holds the encoded board
AllFed ==
    /\ satVars = EncodeAll(board).numVars
    /\ satClauses = FedClauses(board)

\* what holds of the solver's contents in every state of a run
ProtocolState ==
    /\ newCount <= 1
    /\ budgetSet <=> pc = "solve"
    /\ handle = "none" => satVars = 0 /\ satClauses = << >> /\ solveCalls = 0
    /\ handle # "none" => elemIdx = Len(board.elements) + 1
    /\ pc = "newVars" => BufferEncoded
    /\ pc = "addClauses" => BufferPrefixFed
    /\ (InLoop /\ solveCalls = 0) => AllFed
    /\ (InLoop \/ solveCalls > 0) =>
          /\ clauses = << >>
          /\ satVars = numVars
          /\ loopI <= NumSolutions(cbLog)
          /\ loopI <= Len(satClauses)
          /\ \A k \in 1..loopI :
                Range(satClauses[Len(satClauses) - loopI + k])
                  = BlockedCodes(cbLog[k].map, board.grid)

(* C20: the order of the protocol.  The solver handle is created only      *)
(* after all elements are encoded; the variables are declared once, with   *)
(* the final numVars, before any clause is added; every clause of the      *)
(* buffer is fed, in buffer order, before the first solve call; the local  *)
(* buffer is emptied after ingestion; each solve call is immediately       *)
(* preceded by setting the time budget; and the only clauses added after   *)
(* the first solve call are blocking clauses, one per reported solution:   *)
(* from the first pass of the loop on, the solver's clauses change only by *)
(* one clause appended after a solution was reported.                      *)
C20_ProtocolOrder ==
    /\ []ProtocolState
    /\ [][(satVars' # satVars /\ run' = run) =>
             (pc = "newVars" /\ satVars = 0 /\ satClauses = << >>)]_vars
    /\ [][(pc = "addClauses" /\ pc' = "addClauses") =>
             (clauses' = clauses /\ numVars' = numVars /\ satVars' = satVars)]_vars
    /\ [][(solveCalls' = solveCalls + 1) => (budgetSet /\ ~budgetSet')]_vars
    /\ [][(satClauses' # satClauses /\ run' = run /\ InLoop) =>
             /\ pc = "addBlocking"
             /\ Len(satClauses') = Len(satClauses) + 1
             /\ SubSeq(satClauses', 1, Len(satClauses)) = satClauses
             /\ loopI' = loopI + 1
             /\ NumSolutions(cbLog) = loopI']_vars

\* two solutions of a 2x2 board were reported: the solver holds the fed
\* clauses and two blocking clauses
C20_Witness ==
    /\ pc = "done"
    /\ result = "true"
    /\ board.grid = Square(2)
    /\ HasGrid(board)
    /\ loopI = 2
    /\ clauses = << >>
    /\ Len(satClauses) = Len(FedClauses(board)) + 2
----------------------------------------------------------------------------
\* the model gives some cell two digits: two base literals of the cell are TRUE
TwoDigitsInCell(M, b) ==
    \E y, x, v, w \in 0..(b.grid.width - 1) :
       /\ v < w
       /\ LitVal(M, getLiteral(y, x, v, b.grid.width))
       /\ LitVal(M, getLiteral(y, x, w, b.grid.width))

\* the solver's last answer is such a model and the decoding loop has met it
InvalidModelMet ==
    /\ status = "TRUE"
    /\ pc # "getModel"
    /\ TwoDigitsInCell(satModel, board)

(* C21: a model with two true base literals for the same cell makes solve  *)
(* fail: once the decoding loop has met it, the run is in the finally      *)
(* block or over with the error as its outcome; the model is not in the    *)
(* callback log (the log holds only the loopI solutions reported before),  *)
(* no blocking clause was added for it (the solver holds one per earlier   *)
(* solution), no completion sentinel is delivered, and when the run is     *)
(* over the handle was released exactly once.                              *)
C21_InvalidModelThrows ==
    InvalidModelMet =>
       /\ pc \in {"finally", "done"}
       /\ result = "threw"
       /\ NumNull(cbLog) = 0
       /\ Len(cbLog) = loopI
       /\ \A k \in 1..Len(cbLog) : cbLog[k].map # DecodeSolution(satModel, board.grid)
       /\ Len(satClauses) = (clauseIdx - 1) + loopI
       /\ pc = "done" => handle = "freed" /\ freeCount = 1

\* after one solution was reported, the second model gave a cell two digits
C21_Witness ==
    /\ InvalidModelMet
    /\ pc = "done"
    /\ result = "threw"
    /\ handle = "freed"
    /\ loopI = 1
    /\ Len(cbLog) = 1
----------------------------------------------------------------------------
\* the element has no encoder: its type is unknown, or its handler is null
Unhandled(element) == HandlerUndefined(element.type) \/ element.type \in NullHandlers

\* the elements the encoding loop has passed, and those of them that have an encoder
Passed == SubSeq(board.elements, 1, elemIdx - 1)
WithoutUnhandled(elements) == SelectSeq(elements, LAMBDA el : ~Unhandled(el))

\* the types of the elements of unknown type, in order
UnknownTypes(elements) ==
    LET u == SelectSeq(elements, LAMBDA el : HandlerUndefined(el.type))
    IN  [ k \in 1..Len(u) |-> u[k].type ]

(* C22: an element of unknown type is logged and skipped and an element    *)
(* whose handler is null is skipped silently: while the encoding loop runs *)
(* and when it has ended, the clause buffer and numVars are those of the   *)
(* board made of the passed elements with every such element removed, and  *)
(* the log holds exactly the unknown types among the passed elements, in   *)
(* order; so the step over such an element changes neither the buffer nor  *)
(* numVars, and the loop goes on to the elements after it.                 *)
C22_UnhandledSkipped ==
    pc \in {"encode", "awaitSat", "newVars"} =>
       LET kept == EncodeAll([ board EXCEPT !.elements = WithoutUnhandled(Passed) ])
       IN  /\ clauses = kept.clauses
           /\ numVars = kept.numVars
           /\ warnLog = UnknownTypes(Passed)

\* an unknown element and then a grid were passed: one warning, the grid's clauses
C22_Witness ==
    /\ pc = "newVars"
    /\ Len(board.elements) = 2
    /\ board.elements[1].type = "thermo"
    /\ board.elements[2].type = "grid"
    /\ board.grid = Square(2)
    /\ warnLog = << "thermo" >>
    /\ clauses = EncodeAll([ board EXCEPT !.elements = << board.elements[2] >> ]).clauses
    /\ clauses # << >>

\* a null handler and then the givens were passed: no warning, the givens' clauses
C22_WitnessNull ==
    /\ pc = "newVars"
    /\ Len(board.elements) = 2
    /\ board.elements[1].type = "corner"
    /\ board.elements[2].type = "givens"
    /\ warnLog = << >>
    /\ clauses # << >>
----------------------------------------------------------------------------
\* the three literal sets of the pair (a, b): the digits of cell (a, b), the
\* columns of digit b in row a, the rows of digit b in column a
CelSet(a, b, n) == { getLiteral(a, b, v, n) : v \in 0..(n - 1) }
RowSet(a, b, n) == { getLiteral(a, v, b, n) : v \in 0..(n - 1) }
ColSet(a, b, n) == { getLiteral(v, a, b, n) : v \in 0..(n - 1) }

GridLiteralSets(n) ==
    [ k \in 1..(3 * n * n) |->
        LET a == ((k - 1) \div 3) \div n
            b == ((k - 1) \div 3) % n
        IN  CASE (k - 1) % 3 = 0 -> CelSet(a, b, n)
              [] (k - 1) % 3 = 1 -> RowSet(a, b, n)
              [] (k - 1) % 3 = 2 -> ColSet(a, b, n) ]

\* exactly one literal of the set is TRUE in the model
ExactlyOne(M, lits) == Cardinality({ l \in lits : LitVal(M, l) }) = 1

\* the clauses mention only the set's literals and are satisfied by exactly the
\* assignments of the set that make one literal TRUE
IsExactlyOneConstraint(cls, lits) ==
    /\ \A k \in 1..Len(cls) : { Abs(l) : l \in Range(cls[k]) } \subseteq lits
    /\ \A T \in SUBSET lits :
          (\A k \in 1..Len(cls) :
              \E j \in 1..Len(cls[k]) :
                 IF cls[k][j] > 0 THEN cls[k][j] \in T ELSE (-cls[k][j]) \notin T)
            <=> Cardinality(T) = 1

\* the clauses the grid encoder leaves on an empty buffer, cut into 3 * n * n runs
\* of equal length
GridClauses(n) == HandlerGrid(1 + Pow3(n), [ type |-> "grid", value |-> NoValue ],
                              << >>, Square(n)).clauses
GridRun(n, k) ==
    LET len == Len(GridClauses(n)) \div (3 * n * n)
    IN  SubSeq(GridClauses(n), (k - 1) * len + 1, k * len)

\* every cell holds one digit, every row and every column holds every digit once
BaseLiterals(n) == 1..Pow3(n)
LatinAssignment(T, n) ==
    /\ \A y, x \in 0..(n - 1) :
          Cardinality({ v \in 0..(n - 1) : getLiteral(y, x, v, n) \in T }) = 1
    /\ \A y, v \in 0..(n - 1) :
          Cardinality({ x \in 0..(n - 1) : getLiteral(y, x, v, n) \in T }) = 1
    /\ \A x, v \in 0..(n - 1) :
          Cardinality({ y \in 0..(n - 1) : getLiteral(y, x, v, n) \in T }) = 1

SatisfiesAll(T, cls) ==
    \A k \in 1..Len(cls) :
       \E j \in 1..Len(cls[k]) :
          IF cls[k][j] > 0 THEN cls[k][j] \in T ELSE (-cls[k][j]) \notin T

\* a reported solution that is a Latin square of order n
LatinSquare(sol, n) ==
    /\ DOMAIN sol = 0..(n * n - 1)
    /\ \A i \in 0..(n - 1), d \in 1..n :
          /\ Cardinality({ j \in 0..(n - 1) : sol[i * n + j] = d }) = 1
          /\ Cardinality({ j \in 0..(n - 1) : sol[j * n + i] = d }) = 1

\* the encoding loop has just passed a grid element on an empty buffer
GridJustEncoded ==
    /\ pc = "encode"
    /\ elemIdx = 2
    /\ board.elements[1].type = "grid"

(* C23: the grid encoder emits, for every (a, b), three exactly-one         *)
(* constraints over {lit(a,b,v)}, {lit(a,v,b)} and {lit(v,a,b)}, 3*N*N in   *)
(* all and in that order; an assignment of the base literals satisfies its  *)
(* clauses iff every cell holds exactly one digit and every row and every   *)
(* column holds every digit exactly once; and every solution reported for a *)
(* board that contains grid is a Latin square.                              *)
C23_GridLatinSquare ==
    LET n == board.grid.width
    IN  /\ GridJustEncoded =>
             /\ clauses = GridClauses(n)
             /\ numVars = 1 + Pow3(n)
             /\ \A k \in 1..(3 * n * n) :
                   IsExactlyOneConstraint(GridRun(n, k), GridLiteralSets(n)[k])
             /\ \A T \in SUBSET BaseLiterals(n) :
                   SatisfiesAll(T, clauses) <=> LatinAssignment(T, n)
        /\ HasGrid(board) =>
             \A k \in 1..Len(cbLog) : ~cbLog[k].isNull => LatinSquare(cbLog[k].map, n)

\* both Latin squares of order 2 were reported for the board that holds only grid
C23_Witness ==
    /\ pc = "done"
    /\ result = "true"
    /\ board.grid = Square(2)
    /\ Len(board.elements) = 1
    /\ board.elements[1].type = "grid"
    /\ Solutions(cbLog) = { LatinA, LatinB }
----------------------------------------------------------------------------
(* The box and disjointGroups encoders on a 9x9 board, one step per pass   *)
(* of their outer loop: the pass builds the array 'box' and hands it to    *)
(* encodeBoth(ones, box, 1, 1, ...).                                       *)

\* context.size of the board the encoder runs on
BoxSize == BoxWidth * BoxWidth

InitBox ==
    /\ NoSolve
    /\ NoEditor
    /\ NoElementEvents
    /\ NoThermoGesture
    /\ hType \in { "box", "disjointGroups" }
    /\ hValue \in Payloads
    /\ hOuter = 1
    /\ hBox = << >>
    /\ hCalls = 0
    /\ hDone = FALSE

\* box: one pass of  for (const [ val, bx ] of product(size, size))
BoxPass ==
    /\ hType = "box"
    /\ ~hDone
    /\ hOuter <= BoxSize * BoxSize
    /\ hBox' = BoxLits(Product2(BoxSize)[hOuter][1], Product2(BoxSize)[hOuter][2], BoxSize)
    /\ hCalls' = hCalls + 1
    /\ hOuter' = hOuter + 1
    /\ UNCHANGED << hType, hValue, hDone, solveVars, warnVars, editVars, thermoVars >>

\* disjointGroups with a truthy payload: one pass of
\* for (const [ val, pos ] of product(size, size))
DisjointPass ==
    /\ hType = "disjointGroups"
    /\ Truthy(hValue)
    /\ ~hDone
    /\ hOuter <= BoxSize * BoxSize
    /\ hBox' = DisjointLits(Product2(BoxSize)[hOuter][1], Product2(BoxSize)[hOuter][2],
                            BoxSize)
    /\ hCalls' = hCalls + 1
    /\ hOuter' = hOuter + 1
    /\ UNCHANGED << hType, hValue, hDone, solveVars, warnVars, editVars, thermoVars >>

\* return numVars;  after the loop, or at once when if (element.value) fails
HandlerReturn ==
    /\ ~hDone
    /\ \/ hOuter > BoxSize * BoxSize
       \/ hType = "disjointGroups" /\ ~Truthy(hValue)
    /\ hDone' = TRUE
    /\ UNCHANGED << hType, hValue, hOuter, hBox, hCalls, solveVars, warnVars, editVars, thermoVars >>

NextBox ==
    \/ BoxPass
    \/ DisjointPass
    \/ HandlerReturn

SpecBox == InitBox /\ [][NextBox]_vars

\* the cells [row, col] and the indices of a 9x9 board
BoxCells == (0..(BoxSize - 1)) \X (0..(BoxSize - 1))
BoxIndices == 0..(BoxSize - 1)

\* the aligned 3x3 box number bx, and the cells at position pos of their boxes
AlignedBox(bx) ==
    { c \in BoxCells : c[1] \div BoxWidth = bx \div BoxWidth /\ c[2] \div BoxWidth = bx % BoxWidth }
SamePosition(pos) ==
    { c \in BoxCells : c[1] % BoxWidth = pos \div BoxWidth /\ c[2] % BoxWidth = pos % BoxWidth }

\* the literals of digit val (0-based) at the cells
DigitAt(val, cells) == { getLiteral(c[1], c[2], val, BoxSize) : c \in cells }

\* the pair [val, .] of the pass that made the last encodeBoth call
LastPass == Product2(BoxSize)[hOuter - 1]

(* C24: for N = 9 the box arithmetic maps the 81 pairs (bx, pos) one-to-one *)
(* onto the 81 cells, each bx covering exactly one aligned 3x3 box; the box *)
(* encoder makes one exactly-one call per (digit, box), 81 in all, over the *)
(* digit at the 9 cells of that box; the disjointGroups encoder, when its   *)
(* payload is truthy, makes one call per (digit, pos), 81 in all, over the  *)
(* digit at the 9 cells at position pos of each box, and makes no call when *)
(* the payload is falsy.                                                    *)
C24_BoxArithmetic ==
    /\ hCalls = 0 =>
          /\ \A c \in BoxCells :
                Cardinality({ q \in BoxIndices \X BoxIndices :
                                << BoxRow(q[1], q[2]), BoxCol(q[1], q[2]) >> = c }) = 1
          /\ \A bx \in BoxIndices :
                { << BoxRow(bx, pos), BoxCol(bx, pos) >> : pos \in BoxIndices } = AlignedBox(bx)
          /\ Cardinality(Range(Product2(BoxSize))) = BoxSize * BoxSize
          /\ Range(Product2(BoxSize)) = BoxIndices \X BoxIndices
    /\ hCalls = hOuter - 1
    /\ (hType = "box" /\ hCalls > 0) =>
          /\ Len(hBox) = BoxSize
          /\ Range(hBox) = DigitAt(LastPass[1], AlignedBox(LastPass[2]))
          /\ Cardinality(Range(hBox)) = BoxSize
    /\ (hType = "disjointGroups" /\ Truthy(hValue) /\ hCalls > 0) =>
          /\ Len(hBox) = BoxSize
          /\ Range(hBox) = DigitAt(LastPass[1], SamePosition(LastPass[2]))
          /\ Cardinality(Range(hBox)) = BoxSize
    /\ (hType = "disjointGroups" /\ ~Truthy(hValue)) => hCalls = 0 /\ hBox = << >>
    /\ (hDone /\ (hType = "box" \/ Truthy(hValue))) => hCalls = BoxSize * BoxSize

\* the box encoder has returned after its 81 calls, the last over digit 9 in box 8
C24_Witness ==
    /\ hType = "box"
    /\ hDone
    /\ hCalls = 81
    /\ Range(hBox) = DigitAt(8, { c \in BoxCells : c[1] >= 6 /\ c[2] >= 6 })

\* the disjointGroups encoder is in its loop; and it has returned without a call
C24_WitnessDisjoint ==
    /\ hType = "disjointGroups"
    /\ hCalls = 5
    /\ Range(hBox) = DigitAt(0, { c \in BoxCells : c[1] % 3 = 1 /\ c[2] % 3 = 1 })
C24_WitnessFalsy ==
    /\ hType = "disjointGroups"
    /\ hValue = "false"
    /\ hDone
    /\ hCalls = 0
----------------------------------------------------------------------------
\* the nonzero literals over nv variables
Literals(nv) == ((-nv)..nv) \ {0}

\* the solver variable and the sign bit of a CMS literal
CmsVar(code) == code \div 2
CmsSign(code) == code % 2

(* C25: literalToCms is injective on the nonzero literals; L and -L get     *)
(* codes that differ only in the lowest bit, which is set for the negative  *)
(* one; and decoding agrees with it: for a positive base literal L, the     *)
(* model entry read at index L - 1 is the value of the variable of the code *)
(* of L, so L is TRUE for the decoder exactly when the solver holds its     *)
(* code TRUE and the code of -L FALSE.                                      *)
C25_LiteralToCms ==
    /\ pc = "newVars" =>
          /\ \A l1, l2 \in Literals(numVars) :
                literalToCms(l1) = literalToCms(l2) => l1 = l2
          /\ \A l \in Literals(numVars) :
                /\ literalToCms(l) >= 0
                /\ CmsVar(literalToCms(l)) = CmsVar(literalToCms(-l))
                /\ CmsSign(literalToCms(l)) = (IF l < 0 THEN 1 ELSE 0)
                /\ CmsVar(literalToCms(l)) = Abs(l) - 1
    /\ status = "TRUE" =>
          \A l \in BaseLiterals(board.grid.width) :
             /\ LitVal(satModel, l) = (CmsVar(literalToCms(l)) \in satModel)
             /\ LitVal(satModel, l) = CmsLitTrue(literalToCms(l), satModel)
             /\ LitVal(satModel, l) = ~CmsLitTrue(literalToCms(-l), satModel)

\* a model of a 2x2 board is being decoded: literal 1 is TRUE in it, literal 2 is not
C25_Witness ==
    /\ pc = "callback"
    /\ status = "TRUE"
    /\ board.grid = Square(2)
    /\ LitVal(satModel, 1)
    /\ CmsLitTrue(literalToCms(1), satModel)
    /\ ~LitVal(satModel, 2)
    /\ CmsLitTrue(literalToCms(-2), satModel)
----------------------------------------------------------------------------
(* The same driver on 2x2 boards that carry a box or a disjointGroups      *)
(* element next to grid.  A clause over a variable that was not declared   *)
(* is taken by the solver with that variable FALSE, or the call throws.    *)

SmallBoxElements ==
    { [ type |-> "grid", value |-> NoValue ],
      [ type |-> "box", value |-> "undefined" ],
      [ type |-> "disjointGroups", value |-> "true" ],
      [ type |-> "disjointGroups", value |-> "false" ],
      [ type |-> "givens", value |-> LatinB ] }

SmallBoxBoards ==
    { b \in UNION { [ grid : {Square(2)}, elements : [1..len -> SmallBoxElements] ] :
                      len \in 1..MaxElements } :
        HasGrid(b) }

InitSmallBox ==
    /\ board \in SmallBoxBoards
    /\ maxSolutions \in 0..MaxSol
    /\ cancelled \in BOOLEAN
    /\ cancelAt = IF cancelled THEN 0 ELSE -1
    /\ cancelPc = IF cancelled THEN "before" ELSE "none"
    /\ FreshRun
    /\ run = 1
    /\ prevSolutions = {}
    /\ NoEditor
    /\ NoHandlerRun
    /\ NoElementEvents
    /\ NoThermoGesture

SpecSmallBox == InitSmallBox /\ [][Next]_vars

\* the givens and filled entries of the board lie inside the grid, digits in 1..N
GivensInside(b) ==
    \A k \in 1..Len(b.elements) :
       b.elements[k].type \in {"givens", "filled"} =>
          /\ DOMAIN b.elements[k].value \subseteq Cells(b)
          /\ \A c \in DOMAIN b.elements[k].value : b.elements[k].value[c] \in Digits(b)

\* every literal of every clause the solver was handed is over a declared variable
LiteralsDeclared ==
    \A k \in 1..Len(satClauses) :
       \A j \in 1..Len(satClauses[k]) :
          /\ CmsVar(satClauses[k][j]) + 1 >= 1
          /\ CmsVar(satClauses[k][j]) + 1 <= satVars

\* the encoders that hand numVars back as they got it
ReturnsUnchanged(element) ==
    \/ Unhandled(element)
    \/ element.type \in {"givens", "filled"}
    \/ element.type = "disjointGroups" /\ ~Truthy(element.value)

(* C26: the variable counter starts at N^3 + 1 and never decreases while    *)
(* elements are encoded (givens, filled and inactive elements leave it as   *)
(* it was), and every literal of every clause handed to the solver,         *)
(* blocking clauses included, has a magnitude between 1 and the numVars     *)
(* declared to the solver, on boards whose givens lie inside the grid with  *)
(* digits in 1..N.                                                          *)
C26_LiteralsWithinDeclared ==
    /\ []((pc = "encode" /\ elemIdx = 1) => numVars = 1 + Pow3(board.grid.width))
    /\ [][(pc = "encode" /\ elemIdx' = elemIdx + 1) =>
             /\ numVars' >= numVars
             /\ ReturnsUnchanged(board.elements[elemIdx]) => numVars' = numVars]_vars
    /\ [](GivensInside(board) => LiteralsDeclared)

\* the solver that declared 9 variables was handed the box clause over literal 10
C26_WitnessUndeclared ==
    /\ board.grid = Square(2)
    /\ board.elements[Len(board.elements)].type = "box"
    /\ GivensInside(board)
    /\ satVars = 9
    /\ \E k \in 1..Len(satClauses) : \E j \in 1..Len(satClauses[k]) :
          CmsVar(satClauses[k][j]) = 9
----------------------------------------------------------------------------
(* The watch on boards that carry the other line rules.                    *)

LineElements ==
    { [ type |-> "slowThermo", value |-> << <<0, 1, 2>>, <<3, 1>> >> ],
      [ type |-> "between", value |-> << <<0, 1, 2>> >> ],
      [ type |-> "doubleArrow", value |-> << <<3, 1>>, <<0, 1, 2>>, <<0, 1, 2, 3>> >> ],
      [ type |-> "lockout", value |-> << <<3>>, <<3, 0>>, <<0, 1, 2>>, <<0, 1, 2, 3>> >> ],
      [ type |-> "whisper", value |-> << <<0, 1, 2>> >> ],
      [ type |-> "dutchWhisper", value |-> << <<2, 3>> >> ] }

LineBoards ==
    { es \in UNION { [1..len -> LineElements] : len \in 0..MaxElements } :
        \A i, j \in 1..Len(es) : i # j => es[i] # es[j] }

InitLines ==
    /\ NoSolve
    /\ NoHandlerRun
    /\ NoElementEvents
    /\ NoThermoGesture
    /\ wGrid = WarnGrid
    /\ wElements \in LineBoards
    /\ wDigits = << >>
    /\ warningState = UpdateCells(<< >>, EvaluateWarnings(wElements, wGrid, wDigits, << >>))
    /\ wPrevFlagged = {}

SpecLines == InitLines /\ [][NextWarn]_vars

\* a position of the line whose digit is less than the digit of an earlier position
Decreasing(line) ==
    { j \in Present(line) : \E i \in Present(line) : i < j /\ wDigits[line[j]] < wDigits[line[i]] }

(* C27: slow thermo.  It is the thermo rule with equality let through: a    *)
(* line whose present digits do not decrease from bulb to tip gets no cell  *)
(* flagged, and the cell of a present digit that is less than an earlier    *)
(* present digit of its line is flagged by the rule, and in the bitset of   *)
(* the editor when the element is alone on the board.                       *)
C27_SlowThermo ==
    \A k \in ElementsOfType("slowThermo") :
       LET value == wElements[k].value
       IN  /\ \A p \in 1..Len(value) :
                /\ Decreasing(value[p]) = {} => FlaggedByLine(wElements[k], value[p]) = {}
                /\ \A j \in Decreasing(value[p]) : value[p][j] \in FlaggedAlone(wElements[k])
           /\ Len(wElements) = 1 =>
                \A p \in 1..Len(value) :
                   \A j \in Decreasing(value[p]) : value[p][j] \in Flagged(warningState)

\* a slow thermo alone on the board: 2 1 _ on its first line, 1 1 on its second
\* line, which ends in the second cell of the first; that cell is not flagged
C27_WitnessCleared ==
    /\ Len(wElements) = 1
    /\ wElements[1].type = "slowThermo"
    /\ DOMAIN wDigits = {0, 1, 3}
    /\ wDigits[0] = 2 /\ wDigits[1] = 1 /\ wDigits[3] = 1
    /\ Flagged(warningState) = {0}
----------------------------------------------------------------------------
\* the line has two ends and both hold a digit
BothCircles(line) ==
    /\ Len(line) >= 2
    /\ line[1] \in DOMAIN wDigits
    /\ line[Len(line)] \in DOMAIN wDigits

\* the cells strictly between the ends of the line that hold a digit
FilledInterior(line) ==
    { line[j] : j \in { i \in 2..(Len(line) - 1) : line[i] \in DOMAIN wDigits } }

\* what the lockout rule is to flag on the line
LockoutExpected(line) ==
    IF ~BothCircles(line) THEN {}
    ELSE LET h == wDigits[line[1]]
             t == wDigits[line[Len(line)]]
             lo == IF h <= t THEN h ELSE t
             hi == IF h <= t THEN t ELSE h
             inside == { c \in FilledInterior(line) : lo <= wDigits[c] /\ wDigits[c] <= hi }
         IN  (IF hi - lo < ((wGrid.width + 1) \div 2) - 1 THEN { line[1], line[Len(line)] }
              ELSE {})
             \cup
             (IF inside # {} THEN inside \cup { line[1], line[Len(line)] } ELSE {})

(* C28: lockout, for lines of every length from 1 on.  When both circle     *)
(* digits are present, both circles are flagged if they differ by less than *)
(* ((N+1)>>1) - 1, every interior cell whose digit lies in [min, max] of    *)
(* the circles is flagged together with both circles, and no other cell is  *)
(* flagged; when a circle digit is missing, which includes the line of one  *)
(* cell, nothing is flagged.  The element flags the cells its lines flag.   *)
C28_Lockout ==
    \A k \in ElementsOfType("lockout") :
       LET value == wElements[k].value
       IN  /\ \A p \in 1..Len(value) :
                /\ FlaggedByLine(wElements[k], value[p]) = LockoutExpected(value[p])
                /\ ~BothCircles(value[p]) => FlaggedByLine(wElements[k], value[p]) = {}
                /\ Len(value[p]) = 1 => FlaggedByLine(wElements[k], value[p]) = {}
           /\ FlaggedAlone(wElements[k])
                = UNION { LockoutExpected(value[p]) : p \in 1..Len(value) }
           /\ Len(wElements) = 1 => Flagged(warningState) = FlaggedAlone(wElements[k])

\* a lockout alone on the board, 1 2 _ 3 on its line of four cells: the interior 2
\* lies within the circles 1 and 3, the empty cell is not flagged
C28_Witness ==
    /\ Len(wElements) = 1
    /\ wElements[1].type = "lockout"
    /\ DOMAIN wDigits = {0, 1, 3}
    /\ wDigits[0] = 1 /\ wDigits[1] = 2 /\ wDigits[3] = 3
    /\ Flagged(warningState) = {0, 1, 3}

\* a lockout alone on the board, equal circles 2 2 on its line of two cells
C28_WitnessClose ==
    /\ Len(wElements) = 1
    /\ wElements[1].type = "lockout"
    /\ DOMAIN wDigits = {0, 3}
    /\ wDigits[0] = 2 /\ wDigits[3] = 2
    /\ Flagged(warningState) = {0, 3}
----------------------------------------------------------------------------
\* the positions strictly between the ends of the line
InteriorPositions(line) == 2..(Len(line) - 1)

\* the sum of the digits at the interior positions that hold one (a cell the line
\* passes twice counts twice)
RECURSIVE InteriorSum(_, _)
InteriorSum(line, j) ==
    IF j < 2 THEN 0
    ELSE InteriorSum(line, j - 1) + (IF line[j] \in DOMAIN wDigits THEN wDigits[line[j]] ELSE 0)

\* what the double-arrow rule is to flag on the line
DoubleArrowExpected(line) ==
    IF Len(line) < 3 \/ ~BothCircles(line) THEN {}
    ELSE LET target == wDigits[line[1]] + wDigits[line[Len(line)]]
             actual == InteriorSum(line, Len(line) - 1)
             filled == \A j \in InteriorPositions(line) : line[j] \in DOMAIN wDigits
         IN  IF actual > target \/ (filled /\ actual # target)
             THEN Range(line)
             ELSE {}

(* C29: double arrow.  On a line of at least 3 cells whose two end digits   *)
(* are present, every cell of the line (both ends and all interior cells,   *)
(* filled or not) is flagged if the sum of the present interior digits      *)
(* exceeds head + tail, or if all interior cells are filled and the sums    *)
(* differ; otherwise, and whenever an end digit is missing or the line has  *)
(* fewer than 3 cells, no cell is flagged.                                  *)
C29_DoubleArrow ==
    \A k \in ElementsOfType("doubleArrow") :
       LET value == wElements[k].value
       IN  /\ \A p \in 1..Len(value) :
                /\ FlaggedByLine(wElements[k], value[p]) = DoubleArrowExpected(value[p])
                /\ (Len(value[p]) < 3 \/ ~BothCircles(value[p])) =>
                      FlaggedByLine(wElements[k], value[p]) = {}
           /\ FlaggedAlone(wElements[k])
                = UNION { DoubleArrowExpected(value[p]) : p \in 1..Len(value) }
           /\ Len(wElements) = 1 => Flagged(warningState) = FlaggedAlone(wElements[k])

\* a double arrow alone on the board, 1 3 _ 1 on its line of four cells: the
\* interior sum 3 exceeds 2 and the empty interior cell is flagged as well
C29_Witness ==
    /\ Len(wElements) = 1
    /\ wElements[1].type = "doubleArrow"
    /\ DOMAIN wDigits = {0, 1, 3}
    /\ wDigits[0] = 1 /\ wDigits[1] = 3 /\ wDigits[3] = 1
    /\ Flagged(warningState) = {0, 1, 2, 3}

\* a double arrow alone on the board, 3 1 3 on its line of three cells: the filled
\* interior sums to less than the ends
C29_WitnessShort ==
    /\ Len(wElements) = 1
    /\ wElements[1].type = "doubleArrow"
    /\ DOMAIN wDigits = {0, 1, 2}
    /\ wDigits[0] = 3 /\ wDigits[1] = 1 /\ wDigits[2] = 3
    /\ Flagged(warningState) = {0, 1, 2}
----------------------------------------------------------------------------
\* the bitset after the rules of the first k elements were applied
BitsetAfter(k) == EvaluateFrom(SubSeq(wElements, 1, k), 1, wGrid, wDigits, << >>)

\* the element cut down to its first p lines
FirstLines(element, p) == [ type |-> element.type, value |-> SubSeq(element.value, 1, p) ]

(* C30: the rules only add flags.  Applying the getWarnings of a line rule  *)
(* to the bitset never takes away the flag of a cell that a rule applied    *)
(* before it has flagged, nor one that an earlier line of the same element  *)
(* has flagged.                                                             *)
C30_RulesOnlyAddFlags ==
    \A k \in 1..Len(wElements) :
       /\ Flagged(BitsetAfter(k - 1)) \subseteq Flagged(BitsetAfter(k))
       /\ \A p \in 1..Len(wElements[k].value) :
             Flagged(GetWarnings(FirstLines(wElements[k], p - 1), wGrid, wDigits,
                                 BitsetAfter(k - 1)))
               \subseteq
             Flagged(GetWarnings(FirstLines(wElements[k], p), wGrid, wDigits,
                                 BitsetAfter(k - 1)))

\* a whisper and then a slow thermo, 1 1 in the first two cells of both lines: the
\* whisper flags both cells, the slow thermo takes the flag of the second away
C30_WitnessUnflagged ==
    /\ Len(wElements) = 2
    /\ wElements[1].type = "whisper"
    /\ wElements[2].type = "slowThermo"
    /\ DOMAIN wDigits = {0, 1}
    /\ wDigits[0] = 1 /\ wDigits[1] = 1
    /\ Flagged(BitsetAfter(1)) = {0, 1}
    /\ Flagged(warningState) = {0}

----------------------------------------------------------------------------
(* The element list of the editor: addElement and the elementHandlers      *)
(* store, whose watch on 'elements/*' keeps the array 'list'.              *)

\* most ids boardRepr.makeUid hands out
MaxUid == 2

\* the element values a caller passes
ElementValues == { "a", "b" }

\* null, and the object the watch receives as newVal when an element is deleted
\* by undo or redo: not null, and without a type
Null == [ isNull |-> TRUE, type |-> "undefined", value |-> "undefined" ]
Untyped == [ isNull |-> FALSE, type |-> "undefined", value |-> "undefined" ]

\* the element table of the editor: a type is a key of it or not, and the entry of
\* a key is null or an ElementInfo
EditorTypes == { "givens", "thermo", "diagonal", "arrow", "bogus" }
EditorHandlerKeys == { "givens", "thermo", "diagonal", "arrow" }
EditorHandlers ==
    [ type \in EditorHandlerKeys |->
        CASE type = "givens"   -> [ isNull |-> FALSE, permanent |-> TRUE,  order |-> 30, menu |-> "undefined" ]
          [] type = "thermo"   -> [ isNull |-> FALSE, permanent |-> FALSE, order |-> 20, menu |-> "select" ]
          [] type = "diagonal" -> [ isNull |-> FALSE, permanent |-> FALSE, order |-> 10, menu |-> "toggle" ]
          [] OTHER             -> [ isNull |-> TRUE,  permanent |-> FALSE, order |-> 0,  menu |-> "undefined" ] ]

\* ELEMENT_HANDLERS[type], undefined for a type that is no key
HandlerOf(type) ==
    IF type \in EditorHandlerKeys
    THEN EditorHandlers[type]
    ELSE [ isNull |-> TRUE, permanent |-> FALSE, order |-> 0, menu |-> "undefined" ]

\* createElement(type, value)
createElement(type, value) == [ isNull |-> FALSE, type |-> type, value |-> value ]

\* boardRepr.makeUid(): an id no element had before
makeUid(next) == next

\* oldVal?.type || newVal!.type
WatchedType(oldVal, newVal) ==
    IF ~oldVal.isNull /\ oldVal.type # "undefined" THEN oldVal.type ELSE newVal.type

\* list.findIndex(({ id }) => elementId === id), counted from 1; 0 when there is none
FindIndex(list, elementId) ==
    IF \E k \in 1..Len(list) : list[k].id = elementId
    THEN CHOOSE k \in 1..Len(list) :
            /\ list[k].id = elementId
            /\ \A h \in 1..(k - 1) : list[h].id # elementId
    ELSE 0

\* list.splice(i, 1), i counted from 1
Splice(list, i) ==
    [ h \in 1..(Len(list) - 1) |-> IF h < i THEN list[h] ELSE list[h + 1] ]

\* the comparator of list.sort
CompareHandlers(a, b) ==
    LET permanent == (IF b.info.permanent THEN 1 ELSE 0) - (IF a.info.permanent THEN 1 ELSE 0)
    IN  IF permanent # 0 THEN permanent ELSE a.info.order - b.info.order

\* item put into a sorted list behind the entries that do not come after it
InsertHandler(sorted, item) ==
    LET behind == { k \in 1..Len(sorted) : CompareHandlers(sorted[k], item) <= 0 }
        at == IF behind = {} THEN 0 ELSE CHOOSE k \in behind : \A h \in behind : h <= k
    IN  [ h \in 1..(Len(sorted) + 1) |->
            IF h <= at THEN sorted[h] ELSE IF h = at + 1 THEN item ELSE sorted[h - 1] ]

\* list.sort(...): a stable sort
RECURSIVE SortHandlers(_)
SortHandlers(list) ==
    IF list = << >> THEN << >>
    ELSE InsertHandler(SortHandlers(SubSeq(list, 1, Len(list) - 1)), list[Len(list)])

\* the watch callback of elementHandlers: the list it leaves
elementHandlersWatch(list, elementId, oldVal, newVal) ==
    LET type == WatchedType(oldVal, newVal)
        elementInfo == HandlerOf(type)
        i == FindIndex(list, elementId)
    IN  IF elementInfo.isNull THEN list
        ELSE IF ~oldVal.isNull /\ i = 0 THEN list
        ELSE SortHandlers(
                IF newVal.isNull THEN Splice(list, i)
                ELSE IF oldVal.isNull
                     THEN Append(list, [ id |-> elementId, info |-> elementInfo ])
                     ELSE list)

\* the same with the first of the two tests only
AddThrowsUnknownOnly(type) == ~(type \in EditorHandlerKeys)

\* addElement throws before it touches the state
AddThrows(type) == ~(type \in EditorHandlerKeys) \/ HandlerOf(type).isNull

\* 'select' === handler.menu?.type
SelectsTool(handler) == handler.menu = "select"

\* addElement(type, value), with the watch its update fires
AddElement ==
    /\ \E type \in EditorTypes, value \in ElementValues :
          LET element == createElement(type, value)
              id == makeUid(eNextUid)
          IN  IF AddThrows(type)
              THEN /\ eLast' = [ type |-> type, threw |-> TRUE, id |-> 0 ]
                   /\ UNCHANGED << eElements, eList, eHistory, eTool, ePrevTool, eNextUid >>
              ELSE /\ eNextUid <= MaxUid
                   /\ eNextUid' = eNextUid + 1
                   /\ eElements' = [ x \in DOMAIN eElements \cup {id} |->
                                       IF x = id THEN element ELSE eElements[x] ]
                   /\ eList' = elementHandlersWatch(eList, id, Null, element)
                   /\ eHistory' = Append(eHistory, id)
                   /\ IF SelectsTool(HandlerOf(type))
                      THEN eTool' = id /\ ePrevTool' = id
                      ELSE UNCHANGED << eTool, ePrevTool >>
                   /\ eLast' = [ type |-> type, threw |-> FALSE, id |-> id ]
    /\ UNCHANGED << solveVars, warnVars, handlerVars, thermoVars >>

\* a board is loaded element by element: an update that is no addElement
LoadElement ==
    /\ eNextUid <= MaxUid
    /\ \E type \in EditorTypes, value \in ElementValues :
          LET element == createElement(type, value)
              id == makeUid(eNextUid)
          IN  /\ eElements' = [ x \in DOMAIN eElements \cup {id} |->
                                  IF x = id THEN element ELSE eElements[x] ]
              /\ eList' = elementHandlersWatch(eList, id, Null, element)
    /\ eNextUid' = eNextUid + 1
    /\ UNCHANGED << eHistory, eTool, ePrevTool, eLast >>
    /\ UNCHANGED << solveVars, warnVars, handlerVars, thermoVars >>

\* the value of an element changes
ChangeElement ==
    /\ \E id \in DOMAIN eElements, value \in ElementValues :
          LET oldVal == eElements[id]
              newVal == createElement(oldVal.type, value)
          IN  /\ newVal # oldVal
              /\ eElements' = [ eElements EXCEPT ![id] = newVal ]
              /\ eList' = elementHandlersWatch(eList, id, oldVal, newVal)
    /\ UNCHANGED << eHistory, eTool, ePrevTool, eNextUid, eLast >>
    /\ UNCHANGED << solveVars, warnVars, handlerVars, thermoVars >>

\* the elements without the one of this id
WithoutElement(elements, id) == [ x \in DOMAIN elements \ {id} |-> elements[x] ]

\* the user deletes an element: newVal is null
DeleteElement ==
    /\ \E id \in DOMAIN eElements :
          /\ eElements' = WithoutElement(eElements, id)
          /\ eList' = elementHandlersWatch(eList, id, eElements[id], Null)
    /\ UNCHANGED << eHistory, eTool, ePrevTool, eNextUid, eLast >>
    /\ UNCHANGED << solveVars, warnVars, handlerVars, thermoVars >>

\* undo or redo deletes an element: newVal is an object without a type
UndoRedoDelete ==
    /\ \E id \in DOMAIN eElements :
          /\ eElements' = WithoutElement(eElements, id)
          /\ eList' = elementHandlersWatch(eList, id, eElements[id], Untyped)
    /\ UNCHANGED << eHistory, eTool, ePrevTool, eNextUid, eLast >>
    /\ UNCHANGED << solveVars, warnVars, handlerVars, thermoVars >>

\* the store is subscribed on an empty board
InitElements ==
    /\ NoSolve
    /\ NoEditor
    /\ NoHandlerRun
    /\ NoThermoGesture
    /\ NoElementEvents

NextElements ==
    \/ AddElement
    \/ LoadElement
    \/ ChangeElement
    \/ DeleteElement
    \/ UndoRedoDelete

SpecElements == InitElements /\ [][NextElements]_vars

\* the ids the list holds, and the elements that exist and whose type has a handler
ListIds == { eList[k].id : k \in 1..Len(eList) }
HandledElements == { id \in DOMAIN eElements : ~HandlerOf(eElements[id].type).isNull }

\* C31: after any sequence of add, change and delete events, the deletion by undo
\* or redo among them, the list holds one entry for each existing element whose
\* type has a handler, none for a deleted element, and no id twice
C31_ListMatchesElements ==
    /\ \A id \in HandledElements : Cardinality({ k \in 1..Len(eList) : eList[k].id = id }) = 1
    /\ ListIds \subseteq DOMAIN eElements
    /\ \A k, h \in 1..Len(eList) : eList[k].id = eList[h].id => k = h

\* an element deleted by undo or redo is still in the list
C31_WitnessStale == \E k \in 1..Len(eList) : ~(eList[k].id \in DOMAIN eElements)

\* addElement ran: every call that returns hands out an id no call returned
\* before, and a call that throws twice alike leaves every variable as it was
AddElementRan == eLast' # eLast

\* the elements, the history and the two tool states are as they were
EditorUntouched ==
    /\ eElements' = eElements
    /\ eHistory' = eHistory
    /\ eTool' = eTool
    /\ ePrevTool' = ePrevTool

\* one element of this type came to the board, under an id no element has or had
AddedOne(type, id) ==
    /\ ~(id \in DOMAIN eElements)
    /\ \A k \in 1..Len(eHistory) : eHistory[k] # id
    /\ DOMAIN eElements' = DOMAIN eElements \cup {id}
    /\ \A x \in DOMAIN eElements : eElements'[x] = eElements[x]
    /\ eElements'[id].type = type

\* the types with a handler that is not null, and those of them with a 'select' menu
ImplementedTypes == { "givens", "thermo", "diagonal" }
SelectTypes == { "thermo" }

\* C34: addElement with a type that is no key of the handler table, or whose
\* handler is null, throws and leaves the board, the history and the tool state
\* unchanged; on success it adds exactly one element under a fresh id, pushes
\* exactly one history entry, and changes the current tool only when the handler's
\* menu type is 'select'
C34_AddElement ==
    [][ AddElementRan =>
          IF eLast'.type \in ImplementedTypes
          THEN /\ ~eLast'.threw
               /\ AddedOne(eLast'.type, eLast'.id)
               /\ eHistory' = Append(eHistory, eLast'.id)
               /\ (eTool' # eTool => eLast'.type \in SelectTypes)
               /\ (eLast'.type \in SelectTypes => eTool' = eLast'.id)
          ELSE eLast'.threw /\ EditorUntouched ]_vars

\* addElement threw for a type whose handler is null, and for a type that is no key
C34_WitnessNull == eLast.threw /\ eLast.type = "arrow"
C34_WitnessUnknown == eLast.threw /\ eLast.type = "bogus"

\* addElement returned without changing the tool, and with changing it
C34_Witness == ~eLast.threw /\ eLast.id # 0 /\ eLast.type = "diagonal" /\ eTool # eLast.id
C34_WitnessSelect == ~eLast.threw /\ eLast.type = "thermo" /\ eTool = eLast.id

----------------------------------------------------------------------------
(* The thermo tool of the editor: ThermoHandler.getConflicts and the       *)
(* pointer handler _bindPointerhandler binds, which draws one thermo per   *)
(* drag gesture into the element's value.                                  *)

\* most drag gestures of one session
MaxThermos == 2

\* the grid the thermos are drawn on, and the coordinates of its cells
ThermoGrid == Square(2)
ThermoCoords == (0..(ThermoGrid.width - 1)) \X (0..(ThermoGrid.height - 1))

\* the keys of an ArrayObj or of an array, and Object.entries / Object.values of it
ArrayKeys(obj) == DOMAIN obj
ArrayLength(obj) == Cardinality(DOMAIN obj)

\* arrayObj2array(obj): the values by ascending key, as a sequence
arrayObj2array(obj) ==
    [ j \in 1..ArrayLength(obj) |->
        obj[CHOOSE k \in DOMAIN obj : Cardinality({ h \in DOMAIN obj : h < k }) = j - 1] ]

\* an array as the state tree holds it: by its keys 0, 1, ...
StoredArray(array) == [ k \in 0..(Len(array) - 1) |-> array[k + 1] ]

\* ref.get(), {} when there is nothing under the ref
ThermoGet(thermos, id) == IF id \in DOMAIN thermos THEN thermos[id] ELSE << >>

\* ref.replace(value) for a value that is not null, and ref.replace(null)
ThermoReplace(thermos, id, value) ==
    [ x \in DOMAIN thermos \cup {id} |-> IF x = id THEN value ELSE thermos[x] ]
ThermoRemove(thermos, id) == [ x \in DOMAIN thermos \ {id} |-> thermos[x] ]

\* ref.ref(`${key}`).replace(idx)
ThermoSetCell(thermos, id, key, idx) ==
    LET old == ThermoGet(thermos, id)
    IN  ThermoReplace(thermos, id,
                      [ k \in DOMAIN old \cup {key} |-> IF k = key THEN idx ELSE old[k] ])

\* the key under which the cell is stored already; -1 when it is not
VisitedAt(obj, idx) ==
    IF \E k \in DOMAIN obj : obj[k] = idx
    THEN CHOOSE k \in DOMAIN obj : obj[k] = idx /\ \A h \in DOMAIN obj : h < k => obj[h] # idx
    ELSE -1

\* what the drag listener stores when the pointer is back on the cell at key i
ReplaceOnReturn(obj, i) == StoredArray(arrayObj2array(obj))

\* 'dragStart'
DragStart ==
    /\ ~tDragging
    /\ tNextId <= MaxThermos
    /\ tLen' = 0
    /\ tRef' = tNextId
    /\ tNextId' = tNextId + 1
    /\ tDragging' = TRUE
    /\ UNCHANGED << tThermos, tDigits, tConflicts >>
    /\ UNCHANGED << solveVars, warnVars, handlerVars, editVars >>

\* 'drag'
Drag ==
    /\ tDragging
    /\ \E coord \in ThermoCoords :
          LET idx == cellCoord2CellIdx(coord[1], coord[2], ThermoGrid)
              stored == ThermoGet(tThermos, tRef)
              i == VisitedAt(stored, idx)
          IN  IF i >= 0
              THEN /\ tLen' = i + 1
                   /\ tThermos' = ThermoReplace(tThermos, tRef, ReplaceOnReturn(stored, i))
              ELSE /\ tThermos' = ThermoSetCell(tThermos, tRef, tLen, idx)
                   /\ tLen' = tLen + 1
    /\ UNCHANGED << tRef, tDragging, tNextId, tDigits, tConflicts >>
    /\ UNCHANGED << solveVars, warnVars, handlerVars, editVars >>

\* 'dragEnd'
DragEnd ==
    /\ tDragging
    /\ tThermos' = IF 1 >= tLen THEN ThermoRemove(tThermos, tRef) ELSE tThermos
    /\ tDragging' = FALSE
    /\ UNCHANGED << tRef, tLen, tNextId, tDigits, tConflicts >>
    /\ UNCHANGED << solveVars, warnVars, handlerVars, editVars >>

\* the first thermo, in the order of Object.entries, whose bulb is this cell; 0 for none
TappedThermo(thermos, idx) ==
    LET hit == { id \in DOMAIN thermos : 0 \in DOMAIN thermos[id] /\ thermos[id][0] = idx }
    IN  IF hit = {} THEN 0 ELSE CHOOSE id \in hit : \A other \in hit : id <= other

\* 'tap'
Tap ==
    /\ ~tDragging
    /\ \E coord \in ThermoCoords :
          LET idx == cellCoord2CellIdx(coord[1], coord[2], ThermoGrid)
              thermoId == TappedThermo(tThermos, idx)
          IN  /\ thermoId # 0
              /\ tThermos' = ThermoRemove(tThermos, thermoId)
    /\ UNCHANGED << tRef, tLen, tDragging, tNextId, tDigits, tConflicts >>
    /\ UNCHANGED << solveVars, warnVars, handlerVars, editVars >>

\* the handler is bound to a thermo element without thermos
InitThermo ==
    /\ NoSolve
    /\ NoEditor
    /\ NoHandlerRun
    /\ NoElementEvents
    /\ NoThermoGesture

NextThermo ==
    \/ DragStart
    \/ Drag
    \/ DragEnd
    \/ Tap

SpecThermo == InitThermo /\ [][NextThermo]_vars

\* the thermo being drawn, as a sequence; the cells the state holds for it
Drawn == arrayObj2array(ThermoGet(tThermos, tRef))

\* no cell twice
NoCellTwice(cells) == \A i, j \in 1..Len(cells) : cells[i] = cells[j] => i = j

\* C32: during one drag gesture len equals the number of cells stored in the
\* thermo being drawn; dragging back onto the visited cell at index i leaves the
\* stored thermo equal to its first i+1 cells; the stored thermo never holds a
\* cell twice; and dragEnd removes a thermo with len <= 1
C32_DragGesture ==
    /\ [](tDragging => tLen = Len(Drawn))
    /\ [](tDragging => NoCellTwice(Drawn))
    /\ [][ \A i \in 0..(Len(Drawn) - 1) :
              (tDragging /\ tDragging' /\ tLen' = i + 1 /\ tLen' <= tLen)
                 => Drawn' = SubSeq(Drawn, 1, i + 1) ]_vars
    /\ [][ (tDragging /\ ~tDragging' /\ tLen <= 1) => ~(tRef \in DOMAIN tThermos') ]_vars

\* the pointer went back to the bulb of a thermo of two cells: len is 1, two cells are stored
C32_WitnessReturn == tDragging /\ tLen = 1 /\ Len(Drawn) = 2

----------------------------------------------------------------------------
(* ThermoHandler.getConflicts, on thermos drawn earlier. *)

\* the cells and digits of the boards getConflicts is called on
ConflictCells == 0..2
ConflictDigits == 1..3

\* the thermos of a board: sequences of two or three different cells
ConflictThermos ==
    { cells \in UNION { [1..len -> ConflictCells] : len \in 2..3 } : NoCellTwice(cells) }

\* the values of a thermo element with at most MaxThermos thermos
ConflictBoards ==
    UNION { [1..n -> { StoredArray(cells) : cells \in ConflictThermos }] : n \in 0..MaxThermos }

\* the digit maps: each cell is empty or holds a digit
ConflictDigitMaps ==
    UNION { [cs -> ConflictDigits] : cs \in SUBSET ConflictCells }

\* the inner loop of getConflicts: prevCell is never assigned after its declaration
ThermoCellConflicts(thermoCells, digits) ==
    LET prevCell == NegativeInfinity
    IN  SelectSeq(thermoCells,
                  LAMBDA cellIdx : cellIdx \in DOMAIN digits /\ digits[cellIdx] <= prevCell)

\* the outer loop, from the thermo at position k of Object.values(thermos)
RECURSIVE ConflictsFrom(_, _, _)
ConflictsFrom(thermos, k, digits) ==
    IF k > Len(thermos) THEN << >>
    ELSE ThermoCellConflicts(arrayObj2array(thermos[k]), digits)
            \o ConflictsFrom(thermos, k + 1, digits)

\* getConflicts(digits)
getConflicts(thermos, digits) == ConflictsFrom(thermos, 1, digits)

\* a caller asks for the conflicts of a digit map
GetConflicts ==
    /\ \E digits \in ConflictDigitMaps :
          /\ tDigits' = digits
          /\ tConflicts' = getConflicts(tThermos, digits)
    /\ UNCHANGED << tThermos, tRef, tLen, tDragging, tNextId >>
    /\ UNCHANGED << solveVars, warnVars, handlerVars, editVars >>

\* the handler is bound to an element with thermos; no digit is entered
InitConflicts ==
    /\ NoSolve
    /\ NoEditor
    /\ NoHandlerRun
    /\ NoElementEvents
    /\ tThermos \in ConflictBoards
    /\ tRef = 0
    /\ tLen = 0
    /\ tDragging = FALSE
    /\ tNextId = 1
    /\ tDigits = << >>
    /\ tConflicts = getConflicts(tThermos, << >>)

NextConflicts == GetConflicts

SpecConflicts == InitConflicts /\ [][NextConflicts]_vars

\* the positions of a thermo whose digit is present and at most the digit of a
\* filled cell before it
ConflictPositions(cells) ==
    { j \in 1..Len(cells) :
        /\ cells[j] \in DOMAIN tDigits
        /\ \E i \in 1..(j - 1) :
              cells[i] \in DOMAIN tDigits /\ tDigits[cells[j]] <= tDigits[cells[i]] }

\* the present digits of the thermo strictly increase from bulb to tip
StrictlyIncreasing(cells) ==
    \A i, j \in 1..Len(cells) :
       (i < j /\ cells[i] \in DOMAIN tDigits /\ cells[j] \in DOMAIN tDigits)
          => tDigits[cells[i]] < tDigits[cells[j]]

\* the cells getConflicts returned
Returned == { tConflicts[k] : k \in 1..Len(tConflicts) }

\* C33: getConflicts(digits) returns, for every thermo, each cell whose digit is
\* present and at most the digit of a preceding filled cell of that thermo, and
\* returns an empty list exactly when the present digits of every thermo strictly
\* increase from bulb to tip
C33_GetConflicts ==
    /\ \A k \in 1..Len(tThermos) :
          LET cells == arrayObj2array(tThermos[k])
          IN  \A j \in ConflictPositions(cells) : cells[j] \in Returned
    /\ tConflicts = << >>
          <=> \A k \in 1..Len(tThermos) : StrictlyIncreasing(arrayObj2array(tThermos[k]))

\* getConflicts returned nothing for a thermo whose digits decrease
C33_WitnessMissed ==
    /\ tConflicts = << >>
    /\ \E k \in 1..Len(tThermos) : ~StrictlyIncreasing(arrayObj2array(tThermos[k]))
====
